---- MODULE Spec2Model ----
(***************************************************************************)
(* Model of smallfile.py: the SmallfileWorkload class that every workload  *)
(* thread runs.                                                            *)
(*                                                                         *)
(* Spec    : several workers running do_workload concurrently; they share  *)
(*           the network directory (starting gate, abort and stonewall     *)
(*           files) and a wall clock.                                      *)
(***************************************************************************)
EXTENDS Integers, Sequences, FiniteSets, TLC

(***************************************************************************)
(* Bounds of the model                                                     *)
(***************************************************************************)
MaxIter == 3
MaxFbc == 2
MaxTime == 1

(***************************************************************************)
(* Program constants                                                       *)
(***************************************************************************)
ok == 0
ENOENT == 2
EIO == 5
EACCES == 13
EEXIST == 17
ENOSPC == 28
EINVAL == 22
max_files_between_checks == 100
min_files_between_checks == 10
default_files_between_checks == 20

\* Python's None for the numeric fields of the workload object
None == -1

\* thread ids of the workers of one run
Workers == {"00", "01"}

\* operations the concurrent specification runs
SyncOps == {"create", "cleanup"}

\* file sizes (KB) the concurrent specification is configured with
SyncSizes == {0, 64}

Max(a, b) == IF a >= b THEN a ELSE b
Min(a, b) == IF a <= b THEN a ELSE b

VARIABLES
    cfg,        \* the test parameters, copied to every worker
    wk,         \* wk[w]: the result/state variables of worker w's object
    pc,         \* pc[w]: where worker w is in do_workload
    netfs,      \* synchronisation files that exist in the network directory
    ready,      \* thread-ready files that exist in tmp_dir
    now,        \* last value time.time() returned
    worked,     \* worked[w]: file numbers whose unit of work w completed
    swM,        \* swM[w]: filenum of w when the stonewall file appeared
    obs,        \* obs[w]: filenum of w when it first saw the stonewall file
    touched,    \* touched[w]: calls of touch(stonewall_path) w has made
    invok,      \* the workload object of the single-thread tests (Test.invok)
    fsys,       \* the directory trees, their files and the seed file
    tst         \* the test driver: runs made so far and their results

fsvars == <<invok, fsys, tst>>
vars == <<cfg, wk, pc, netfs, ready, now, worked, swM, obs, touched,
          invok, fsys, tst>>

(***************************************************************************)
(* Worker object                                                           *)
(***************************************************************************)

\* files_between_checks as do_workload recomputes it:
\* max(10, int(max_files_between_checks - total_sz_kb / 100)) if total_sz_kb > 0
files_between_checks_for(total_sz_kb, configured) ==
    IF total_sz_kb > 0
    THEN IF total_sz_kb >= max_files_between_checks * 100
         THEN min_files_between_checks
         ELSE Max(min_files_between_checks,
                  max_files_between_checks - ((total_sz_kb + 99) \div 100))
    ELSE configured

\* reset(): the result variables of a fresh run
reset(c) ==
    [filenum |-> 0, filenum_final |-> None, rq |-> 0, rq_final |-> None,
     abort |-> FALSE, status |-> ok, file_dirs |-> <<>>,
     start_time |-> None, end_time |-> None, elapsed_time |-> None,
     stonewall |-> c.stonewall, finish_all_rq |-> c.finish_all_rq,
     files_between_checks |-> c.files_between_checks,
     exc |-> "none"]

test_ended(s) == (s.end_time # None) /\ (s.end_time > s.start_time)

\* end_test: the condition under which it writes the stonewall file
must_touch_no_check(s, sw) == s.filenum >= cfg.iterations
must_touch_always(s, sw) == TRUE
must_touch_never(s, sw) == FALSE
must_touch(s, sw) == s.filenum >= cfg.iterations /\ ~sw

\* end_test() up to the touch of the stonewall file.  t is the clock reading,
\* sw whether the stonewall file exists.  Result: the new object, whether the
\* clock was read, and what follows: "ok", "touch" or "assert" (myassert failed)
end_test(s, t, sw) ==
    IF test_ended(s)
    THEN [s |-> s, read |-> FALSE, next |-> "ok"]
    ELSE IF ~(s.end_time = None /\ s.rq_final = None /\ s.filenum_final = None)
    THEN [s |-> s, read |-> FALSE, next |-> "assert"]
    ELSE [s |-> [s EXCEPT !.rq_final = s.rq, !.filenum_final = s.filenum,
                          !.end_time = t, !.elapsed_time = t - s.start_time],
          read |-> TRUE,
          next |-> IF must_touch(s, sw) THEN "touch" ELSE "ok"]

\* the stonewall poll at the top of do_another_file
stonewall_check_due(s) ==
    s.stonewall /\ ((s.filenum + 1) % s.files_between_checks) = 0

\* do_another_file: the iteration target is reached
target_reached_off_by_one(s) == s.filenum > cfg.iterations
target_reached(s) == s.filenum >= cfg.iterations

\* the rest of do_another_file, after the stonewall poll
\* ret: "true", "false", "touch" (end_test must still write the stonewall file
\* before False is returned) or "raise"
do_another_file_tail(r, t, sw) ==
    LET s == r.s IN
    IF r.next = "assert"
    THEN [s |-> s, read |-> r.read, ret |-> "raise", exc |-> "assertion failed!"]
    ELSE IF ~s.finish_all_rq /\ test_ended(s)
    THEN [s |-> s, read |-> r.read, ret |-> "false", exc |-> "none"]
    ELSE IF s.status # ok \/ target_reached(s)
    THEN LET e == end_test(s, t, sw) IN
         [s |-> e.s, read |-> r.read \/ e.read,
          ret |-> CASE e.next = "assert" -> "raise"
                    [] e.next = "touch" -> "touch"
                    [] OTHER -> "false",
          exc |-> IF e.next = "assert" THEN "assertion failed!" ELSE "none"]
    ELSE IF s.abort
    THEN [s |-> s, read |-> r.read, ret |-> "raise", exc |-> "saw abort flag"]
    ELSE [s |-> [s EXCEPT !.filenum = s.filenum + 1], read |-> r.read,
          ret |-> "true", exc |-> "none"]

do_another_file(s, t, sw) ==
    IF stonewall_check_due(s) /\ sw
    THEN do_another_file_tail(end_test(s, t, sw), t, sw)
    ELSE do_another_file_tail([s |-> s, read |-> FALSE, next |-> "ok"], t, sw)

(***************************************************************************)
(* Specification Spec: concurrent workers                                  *)
(***************************************************************************)
\* With total_sz_kb > 0 do_workload overwrites the configured polling
\* interval, which then stays at the constructor's default.  finish_all_rq
\* is only looked at after a stonewall poll has ended the test, so it keeps
\* its default without stonewalling; do_cleanup overrides both flags, which
\* then keep the values of a run that asks for stonewalling.
Configs ==
    {c \in [opname : SyncOps, iterations : 1..MaxIter,
            files_between_checks : (1..MaxFbc) \cup {default_files_between_checks},
            total_sz_kb : SyncSizes,
            stonewall : BOOLEAN, finish_all_rq : BOOLEAN,
            starting_gate : BOOLEAN] :
        /\ (c.total_sz_kb > 0) <=>
              (c.files_between_checks = default_files_between_checks)
        /\ ~c.stonewall => ~c.finish_all_rq
        /\ c.opname = "cleanup" => (c.stonewall /\ ~c.finish_all_rq)}

Init ==
    /\ cfg \in Configs
    /\ wk = [w \in Workers |-> reset(cfg)]
    /\ pc = [w \in Workers |-> "idle"]
    /\ netfs = {}
    /\ ready = {}
    /\ now = 0
    /\ worked = [w \in Workers |-> <<>>]
    /\ swM = [w \in Workers |-> None]
    /\ obs = [w \in Workers |-> None]
    /\ touched = [w \in Workers |-> 0]
    /\ invok = reset(cfg)
    /\ fsys = [files |-> [fn \in {} |-> <<>>], dirs |-> {}, seed |-> <<>>,
              free |-> None]
    /\ tst = [pc |-> "unused"]

\* do_workload up to the try block: reset and the polling interval
do_workload_begin(w) ==
    /\ pc[w] = "idle"
    /\ wk' = [wk EXCEPT ![w] =
                [reset(cfg) EXCEPT !.files_between_checks =
                    files_between_checks_for(cfg.total_sz_kb,
                                             cfg.files_between_checks)]]
    /\ pc' = [pc EXCEPT ![w] = "gate"]
    /\ UNCHANGED <<cfg, netfs, ready, now, worked, swM, obs, touched, fsvars>>

\* wait_for_gate: touch the thread-ready file (nothing to do without a gate)
wait_for_gate_enter(w) ==
    /\ pc[w] = "gate"
    /\ IF cfg.starting_gate
       THEN /\ ready' = ready \cup {w}
            /\ pc' = [pc EXCEPT ![w] = "poll"]
       ELSE /\ ready' = ready
            /\ pc' = [pc EXCEPT ![w] = "start"]
    /\ UNCHANGED <<cfg, wk, netfs, now, worked, swM, obs, touched, fsvars>>

\* wait_for_gate: os.path.exists(self.starting_gate)
gate_exists_ignored(fs) == TRUE
gate_exists(fs) == "gate" \in fs

\* wait_for_gate: one evaluation of the polling loop
wait_for_gate_poll(w) ==
    /\ pc[w] = "poll"
    /\ IF gate_exists(netfs)
       THEN /\ pc' = [pc EXCEPT ![w] = "start"]
            /\ wk' = wk
       ELSE IF "abort" \in netfs
       THEN /\ pc' = [pc EXCEPT ![w] = "raised"]
            /\ wk' = [wk EXCEPT ![w].exc = "saw abort flag"]
       ELSE /\ pc' = pc
            /\ wk' = wk
    /\ UNCHANGED <<cfg, netfs, ready, now, worked, swM, obs, touched, fsvars>>

\* (a variant in which do_cleanup keeps the two flags as configured)
start_test_flags_kept(w) ==
    /\ pc[w] = "start"
    /\ \E t \in now..MaxTime :
         /\ now' = t
         /\ wk' = [wk EXCEPT ![w].start_time = t]
    /\ pc' = [pc EXCEPT ![w] = "loop"]
    /\ UNCHANGED <<cfg, netfs, ready, worked, swM, obs, touched, fsvars>>

\* do_workload: start_time = time.time() and the dispatch of the handler
start_test(w) ==
    /\ pc[w] = "start"
    /\ \E t \in now..MaxTime :
         /\ now' = t
         /\ wk' = [wk EXCEPT ![w].start_time = t,
                             ![w].stonewall =
                                 IF cfg.opname = "cleanup" THEN FALSE ELSE @,
                             ![w].finish_all_rq =
                                 IF cfg.opname = "cleanup" THEN TRUE ELSE @]
    /\ pc' = [pc EXCEPT ![w] = "loop"]
    /\ UNCHANGED <<cfg, netfs, ready, worked, swM, obs, touched, fsvars>>

\* one call of do_another_file by the handler's while loop
another_file(w) ==
    /\ pc[w] = "loop"
    /\ \E t \in now..MaxTime :
         LET sw == "stonewall" \in netfs
             r == do_another_file(wk[w], t, sw) IN
         /\ now' = IF r.read THEN t ELSE now
         /\ wk' = [wk EXCEPT ![w] =
                     IF r.ret = "raise"
                     THEN [r.s EXCEPT !.exc = r.exc] ELSE r.s]
         /\ pc' = [pc EXCEPT ![w] =
                     CASE r.ret = "true" -> "work"
                       [] r.ret = "false" -> "ret"
                       [] r.ret = "touch" -> "touch"
                       [] OTHER -> "raised"]
         /\ obs' = [obs EXCEPT ![w] =
                     IF @ = None /\ stonewall_check_due(wk[w]) /\ sw
                     THEN wk[w].filenum ELSE @]
    /\ UNCHANGED <<cfg, netfs, ready, worked, swM, touched, fsvars>>

\* end_test: touch(stonewall_path) succeeds
touch_stonewall(w) ==
    /\ pc[w] = "touch"
    /\ netfs' = netfs \cup {"stonewall"}
    /\ swM' = IF "stonewall" \in netfs THEN swM
              ELSE [v \in Workers |-> wk[v].filenum]
    /\ touched' = [touched EXCEPT ![w] = @ + 1]
    /\ pc' = [pc EXCEPT ![w] = "ret"]
    /\ UNCHANGED <<cfg, wk, ready, now, worked, obs, fsvars>>

\* end_test: the except clause around touch(stonewall_path)
\* (a variant that records every error code)
stonewall_error_recorded(s, err) == [s EXCEPT !.status = err]
stonewall_error(s, err) ==
    IF err # EEXIST
    THEN IF err # EINVAL THEN [s EXCEPT !.status = err] ELSE s
    ELSE s

\* end_test: touch(stonewall_path) raises IOError with errno err, and
\* end_test returns to the handler's loop
touch_raises(w, err) ==
    /\ pc[w] = "touch"
    /\ err = EEXIST => "stonewall" \in netfs
    /\ wk' = [wk EXCEPT ![w] = stonewall_error(wk[w], err)]
    /\ touched' = [touched EXCEPT ![w] = @ + 1]
    /\ pc' = [pc EXCEPT ![w] = "ret"]
    /\ UNCHANGED <<cfg, netfs, ready, now, worked, swM, obs>>

touch_stonewall_fails(w) ==
    /\ \E err \in {EEXIST, EINVAL, EACCES} : touch_raises(w, err)
    /\ UNCHANGED fsvars

\* number of write requests do_create issues for one file
records_per_file ==
    LET rsz == IF cfg.total_sz_kb = 0 THEN 1 ELSE cfg.total_sz_kb IN
    (cfg.total_sz_kb + rsz - 1) \div rsz

\* the handler's unit of work on file number filenum succeeds
do_file(w) ==
    /\ pc[w] = "work"
    /\ worked' = [worked EXCEPT ![w] = Append(@, wk[w].filenum)]
    /\ wk' = [wk EXCEPT ![w].rq =
                IF cfg.opname = "create" THEN @ + records_per_file ELSE @]
    /\ pc' = [pc EXCEPT ![w] = "loop"]
    /\ UNCHANGED <<cfg, netfs, ready, now, swM, obs, touched, fsvars>>

\* a system call of the unit of work raises OSError; do_workload records it
do_file_fails(w) ==
    /\ pc[w] = "work"
    /\ cfg.opname # "cleanup"
    /\ wk' = [wk EXCEPT ![w].status = ENOENT]
    /\ pc' = [pc EXCEPT ![w] = "done"]
    /\ UNCHANGED <<cfg, netfs, ready, now, worked, swM, obs, touched, fsvars>>

\* the handler returns (do_cleanup restores its flags); do_workload returns
do_workload_return(w) ==
    /\ pc[w] = "ret"
    /\ wk' = [wk EXCEPT ![w].stonewall = cfg.stonewall,
                        ![w].finish_all_rq = cfg.finish_all_rq]
    /\ pc' = [pc EXCEPT ![w] = "done"]
    /\ UNCHANGED <<cfg, netfs, ready, now, worked, swM, obs, touched, fsvars>>

\* the test driver opens the starting gate
open_gate ==
    /\ cfg.starting_gate
    /\ "gate" \notin netfs
    /\ netfs' = netfs \cup {"gate"}
    /\ UNCHANGED <<cfg, wk, pc, ready, now, worked, swM, obs, touched, fsvars>>

\* abort_test: touch the abort file if it is not there
abort_test ==
    /\ "abort" \notin netfs
    /\ netfs' = netfs \cup {"abort"}
    /\ UNCHANGED <<cfg, wk, pc, ready, now, worked, swM, obs, touched, fsvars>>

Next ==
    \/ \E w \in Workers : do_workload_begin(w)
    \/ \E w \in Workers : wait_for_gate_enter(w)
    \/ \E w \in Workers : wait_for_gate_poll(w)
    \/ \E w \in Workers : start_test(w)
    \/ \E w \in Workers : another_file(w)
    \/ \E w \in Workers : touch_stonewall(w)
    \/ \E w \in Workers : touch_stonewall_fails(w)
    \/ \E w \in Workers : do_file(w)
    \/ \E w \in Workers : do_file_fails(w)
    \/ \E w \in Workers : do_workload_return(w)
    \/ open_gate
    \/ abort_test

Spec == Init /\ [][Next]_vars

(***************************************************************************)
(* Single-thread workloads on a directory tree: names                      *)
(***************************************************************************)

some_prime == 900593
src_dirs == "file_srcdir"
\* set_top gives the two trees different directories; a caller that assigns
\* the list of the source tree to dest_dirs (same_dirs) makes them equal
dest_dirs ==
    IF "same_dirs" \in DOMAIN cfg /\ cfg.same_dirs THEN src_dirs
    ELSE "file_dstdir"

\* first loop of mk_seq_dir_name: the powers of dirs_per_dir not greater
\* than dir_in, smallest first
RECURSIVE level_dirs(_, _)
level_dirs(dirs_for_this_level, dir_in) ==
    IF dirs_for_this_level <= dir_in
    THEN <<dirs_for_this_level>>
         \o level_dirs(dirs_for_this_level * cfg.dirs_per_dir, dir_in)
    ELSE <<>>

\* second loop of mk_seq_dir_name: one "d_<quotient>" per level, highest
\* power first, then "d_<remainder>"; level counts down to 0
RECURSIVE seq_pathlist(_, _, _)
seq_pathlist(levels, level, dir_in) ==
    IF level = 0
    THEN << <<"d_", dir_in>> >>
    ELSE LET dirs_in_level == levels[level]
             quotient == dir_in \div dirs_in_level
         IN  << <<"d_", quotient>> >>
             \o seq_pathlist(levels, level - 1,
                             dir_in - quotient * dirs_in_level)

\* the digits written lowest power first
mk_seq_dir_name_reversed(file_num) ==
    LET dir_in == file_num \div cfg.files_per_dir
        levels == level_dirs(cfg.dirs_per_dir, dir_in)
        pathlist == seq_pathlist(levels, Len(levels), dir_in)
    IN  [k \in 1..Len(pathlist) |-> pathlist[Len(pathlist) + 1 - k]]

mk_seq_dir_name(file_num) ==
    LET dir_in == file_num \div cfg.files_per_dir
        levels == level_dirs(cfg.dirs_per_dir, dir_in)
    IN  seq_pathlist(levels, Len(levels), dir_in)

\* the loop of mk_hashed_dir_name: each component is inserted in front
RECURSIVE hashed_pathlist(_, _)
hashed_pathlist(dir_num, pathlist) ==
    IF dir_num > 1
    THEN hashed_pathlist(dir_num \div cfg.dirs_per_dir,
             << <<"h_", (dir_num * some_prime) % cfg.dirs_per_dir>> >>
             \o pathlist)
    ELSE pathlist

\* the file number hashed without the modulus
mk_hashed_dir_name_no_modulus(file_num) ==
    LET random_hash == file_num
    IN  hashed_pathlist(random_hash \div cfg.files_per_dir, <<>>)

mk_hashed_dir_name(file_num) ==
    LET random_hash == (file_num * some_prime) % cfg.iterations
    IN  hashed_pathlist(random_hash \div cfg.files_per_dir, <<>>)

\* (a variant that looks at the request count and the number of runs made)
mk_dir_name_of_state(file_num) ==
    IF cfg.hash_to_dir
    THEN mk_hashed_dir_name(file_num + invok.rq + Len(tst.hist))
    ELSE mk_seq_dir_name(file_num + (invok.rq + Len(tst.hist))
                                        * cfg.files_per_dir)
mk_dir_name(file_num) ==
    IF cfg.hash_to_dir THEN mk_hashed_dir_name(file_num)
    ELSE mk_seq_dir_name(file_num)

\* The names as text, one character per element: str(n), zfill(width),
\* "d_" + str(quotient).zfill(3) or "h_" + ..., and os.sep.join(pathlist)
DecimalDigits == <<"0", "1", "2", "3", "4", "5", "6", "7", "8", "9">>
RECURSIVE str(_)
str(n) ==
    IF n < 10 THEN <<DecimalDigits[n + 1]>>
    ELSE str(n \div 10) \o <<DecimalDigits[(n % 10) + 1]>>
RECURSIVE zfill(_, _)
zfill(t, width) == IF Len(t) >= width THEN t ELSE zfill(<<"0">> \o t, width)
dirnm(seg) ==
    (IF seg[1] = "d_" THEN <<"d", "_">> ELSE <<"h", "_">>)
    \o zfill(str(seg[2]), 3)
RECURSIVE os_sep_join(_)
os_sep_join(pathlist) ==
    IF pathlist = <<>> THEN <<>>
    ELSE IF Len(pathlist) = 1 THEN dirnm(pathlist[1])
    ELSE dirnm(pathlist[1]) \o <<"/">> \o os_sep_join(Tail(pathlist))

\* do_workload fills the list file_dirs, which reset() has emptied, for j in
\* range(0, iterations + files_per_dir); mk_file_nm looks the directory of a
\* file number up in the list, and an index beyond it raises IndexError
file_dirs_len == cfg.iterations + cfg.files_per_dir
file_dirs == [j \in 1..file_dirs_len |-> mk_dir_name(j - 1)]
IndexError(s, filenum) == filenum >= Len(s.file_dirs)

\* A path is kept in parts: the tree (source or destination), the number of
\* the top-level directory, the components below it, and for a file its
\* number (the base name is unique per number) and what is appended to it.
\* every file placed under the first top-level directory
mk_file_nm_first_tree(s, base_dirs, filenum) ==
    [tree |-> base_dirs, top |-> 0,
     segs |-> s.file_dirs[filenum + 1], idx |-> filenum, ext |-> ""]

mk_file_nm(s, base_dirs, filenum) ==
    [tree |-> base_dirs, top |-> filenum % cfg.tops,
     segs |-> s.file_dirs[filenum + 1], idx |-> filenum, ext |-> ""]

\* set_top: join(d, "file_srcdir") for the d-th top-level directory, and
\* "".join(components) of mk_file_nm as text; cfg.tid is text here
tree_text(base_dirs, d) == <<"/", "t">> \o str(d) \o <<"/", base_dirs>>
path_text(fn) ==
    tree_text(fn.tree, fn.top) \o <<"/">> \o os_sep_join(fn.segs) \o <<"/">>
    \o cfg.prefix \o <<"_">> \o cfg.onhost \o <<"_">> \o cfg.tid \o <<"_">>
    \o str(fn.idx) \o <<"_">> \o cfg.suffix

with_ext(fn, e) == [fn EXCEPT !.ext = e]
dirname(fn) == [tree |-> fn.tree, top |-> fn.top, segs |-> fn.segs]
parent(d) == [d EXCEPT !.segs = SubSeq(d.segs, 1, Len(d.segs) - 1)]

\* exists(): the top-level directories are there throughout
dir_exists(f, d) == d.segs = <<>> \/ d \in f.dirs
file_exists(f, fn) == fn \in DOMAIN f.files
dir_empty(f, d) ==
    /\ \A fn \in DOMAIN f.files : dirname(fn) # d
    /\ \A c \in f.dirs : parent(c) # d


(***************************************************************************)
(* Subdirectories                                                          *)
(***************************************************************************)

\* os.makedirs(d): d and every missing directory above it
makedirs(f, d) ==
    [f EXCEPT !.dirs = @ \cup
        {[d EXCEPT !.segs = SubSeq(d.segs, 1, n)] : n \in 1..Len(d.segs)}]

\* file numbers whose directory make_all_subdirs and clean_all_subdirs look at
\* (a variant that stops at the directory of the last but one file)
dir_range_short ==
    IF cfg.hash_to_dir THEN 0..(cfg.iterations - 1)
    ELSE {j \in 0..(cfg.iterations - 1) : j % cfg.files_per_dir = 0}

dir_range ==
    IF cfg.hash_to_dir THEN 0..cfg.iterations
    ELSE {j \in 0..(cfg.iterations + cfg.files_per_dir - 1) :
            j % cfg.files_per_dir = 0}

tree_range == 0..(cfg.tops - 1)

\* mk_file_nm(tree, j + k) raises for some j, k of the two loops
\* in a shared directory only thread "00" makes and removes the
\* subdirectories: the others return at once
not_my_subdirs == cfg.tid # "00" /\ cfg.is_shared_dir

dirset_raises(s) ==
    /\ ~not_my_subdirs
    /\ \E k \in tree_range : \E j \in dir_range : IndexError(s, j + k)

dirset(s, tree) ==
    {dirname(mk_file_nm(s, tree, j + k)) : j \in dir_range, k \in tree_range}

RECURSIVE make_dirs(_, _)
make_dirs(f, todo) ==
    IF todo = {} THEN f
    ELSE LET unique_dpath == CHOOSE d \in todo : TRUE
         IN  make_dirs(IF dir_exists(f, unique_dpath) THEN f
                       ELSE makedirs(f, unique_dpath),
                       todo \ {unique_dpath})

\* make_all_subdirs, once both dirsets have been built: the loop ends at
\* its first directory when the abort file exists
make_all_subdirs(s, f, aborted) ==
    IF not_my_subdirs \/ aborted THEN f
    ELSE make_dirs(f, dirset(s, src_dirs) \cup dirset(s, dest_dirs))

\* the while loop of clean_all_subdirs for one directory of the set: a
\* missing directory is skipped, an empty one is removed, and the loop goes
\* on with the directory above until it reaches a non-empty one (ENOTEMPTY)
\* or the top directory.  The top directories of one run have names of the
\* same length, so both length tests say "above the first component".
RECURSIVE climb(_, _)
climb(f, unique_dpath) ==
    IF unique_dpath.segs = <<>> THEN f
    ELSE IF ~dir_exists(f, unique_dpath) THEN climb(f, parent(unique_dpath))
    ELSE IF ~dir_empty(f, unique_dpath) THEN f
    ELSE climb([f EXCEPT !.dirs = @ \ {unique_dpath}], parent(unique_dpath))

RECURSIVE clean_dirs(_, _)
clean_dirs(f, todo) ==
    IF todo = {} THEN f
    ELSE LET unique_dpath == CHOOSE d \in todo : TRUE
         IN  clean_dirs(climb(f, unique_dpath), todo \ {unique_dpath})

\* clean_all_subdirs when building the dirsets does not raise
clean_all_subdirs(s, f) ==
    IF not_my_subdirs THEN f
    ELSE clean_dirs(clean_dirs(f, dirset(s, src_dirs)),
                    dirset(s, dest_dirs))

(***************************************************************************)
(* Seed, random numbers and buffers                                        *)
(***************************************************************************)

\* Text is a sequence of character codes; str(time.time()) is one symbol
\* per clock reading, which is no white space and no digit of a thread id.
SPACE == 32
time_text(t) == <<1000 + t>>
tid_text(tid) ==
    CASE tid = "" -> <<>>
      [] tid = "00" -> <<48, 48>>
      [] tid = "01" -> <<48, 49>>

\* int(self.tid) raises ValueError unless the thread id is a number
tid_is_int(tid) == tid \in {"00", "01"}
int_tid(tid) == CASE tid = "00" -> 0
                  [] tid = "01" -> 1

\* str.strip()
RECURSIVE lstrip(_)
lstrip(t) == IF t # <<>> /\ Head(t) = SPACE THEN lstrip(Tail(t)) ELSE t
RECURSIVE rstrip(_)
rstrip(t) ==
    IF t # <<>> /\ t[Len(t)] = SPACE THEN rstrip(SubSeq(t, 1, Len(t) - 1))
    ELSE t
strip(t) == rstrip(lstrip(t))

\* random.Random: seed(text) fixes the sequence, each draw advances it.
\* The generator is a small hash of the seed text and the draw number.
RandMod == 65521
RECURSIVE text_hash(_)
text_hash(t) ==
    IF t = <<>> THEN 7
    ELSE (text_hash(SubSeq(t, 1, Len(t) - 1)) * 31 + t[Len(t)]) % RandMod
rand_seed(text) == [seed |-> text, n |-> 0]
rand_draw(rs) == ((text_hash(rs.seed) + 1) * (rs.n + 3) + rs.n * rs.n) % RandMod
randrange(rs, lo, hi) == lo + (rand_draw(rs) % (hi - lo))

\* parameters and module flags that a configuration does not name keep the
\* values the source gives them: record_ctime_size False, xattr_size and
\* xattr_count 0, and the three "installed" flags False (no import succeeded)
param(name, default) == IF name \in DOMAIN cfg THEN cfg[name] ELSE default
record_ctime_size == param("record_ctime_size", FALSE)
xattr_size == param("xattr_size", 0)
xattr_count == param("xattr_count", 0)
xattr_installed == param("xattr_installed", FALSE)
fadvise_installed == param("fadvise_installed", FALSE)
fallocate_installed == param("fallocate_installed", FALSE)

\* sizes of the buffers, scaled down
BYTES_PER_KB == 2
biggest_buf_size_bits == 3
random_seg_size_bits == 2
buf_offset_bits == 2
random_size_limit == 2

RECURSIVE Pow2(_)
Pow2(n) == IF n = 0 THEN 1 ELSE 2 * Pow2(n - 1)
biggest_buf_size == Pow2(biggest_buf_size_bits)
buf_offset_range == Pow2(buf_offset_bits)
max_buffer_offset == Pow2(buf_offset_bits)

\* create_biggest_buf(False), byte k (from 0) of the result for a generator
\* just seeded: without incompressible the ramp k % 128 of one segment, "\"
\* replaced by "!", doubled up to biggest_buf_size; with it one draw per
\* byte; then the first buf_offset_range bytes once more
biggest_buf(text, k) ==
    LET i == IF k >= biggest_buf_size THEN k - biggest_buf_size ELSE k
        ramp == (i % Pow2(random_seg_size_bits)) % 128
    IN  IF cfg.incompressible
        THEN randrange([seed |-> text, n |-> i], 0, 255)
        ELSE IF ramp = 92 THEN 33 ELSE ramp

\* draws create_biggest_buf(False) takes from the generator
biggest_buf_draws == IF cfg.incompressible THEN biggest_buf_size ELSE 0

get_next_file_size(rs) ==
    IF cfg.filesize_distr = "random_exponential"
    THEN Max(1, Min(rand_draw(rs) % (cfg.total_sz_kb * random_size_limit + 2),
                    cfg.total_sz_kb * random_size_limit))
    ELSE cfg.total_sz_kb

\* the generator after get_next_file_size
after_file_size(rs) ==
    IF cfg.filesize_distr = "random_exponential"
    THEN [rs EXCEPT !.n = @ + 1] ELSE rs

\* create_biggest_buf(False) as the code builds it: the segment doubled, or
\* one drawn byte, 2, 4, ... drawn bytes and a last one; then the first
\* buf_offset_range bytes are appended (a slice stops at the end of the data)
RECURSIVE doubled(_, _)
doubled(buf, times) ==
    IF times <= 0 THEN buf ELSE doubled(buf \o buf, times - 1)
drawn(text, from, count) ==
    [k \in 1..count |-> randrange([seed |-> text, n |-> from + k - 1], 0, 255)]
RECURSIVE extended(_, _, _, _)
extended(text, buf, powerof2, j) ==
    IF j >= biggest_buf_size_bits - 1 THEN buf
    ELSE extended(text, buf \o drawn(text, Len(buf), 2 * powerof2),
                  2 * powerof2, j + 1)
create_biggest_buf(text, incompressible) ==
    LET segment == [k \in 1..Pow2(random_seg_size_bits) |->
                       IF (k - 1) % 128 = 92 THEN 33 ELSE (k - 1) % 128]
        grown == extended(text, drawn(text, 0, 1), 1, 0)
        buf == IF incompressible
               THEN grown \o drawn(text, Len(grown), 1)
               ELSE doubled(segment,
                            biggest_buf_size_bits - random_seg_size_bits)
    IN  buf \o SubSeq(buf, 1, Min(buf_offset_range, Len(buf)))

\* prepare_buf: the space of the largest record, or of the extended
\* attributes when that is more
total_space(xsize, xcount) ==
    LET total_space_kb ==
            IF cfg.record_sz_kb = 0
            THEN (IF cfg.filesize_distr # "fixed"
                  THEN cfg.total_sz_kb * random_size_limit
                  ELSE cfg.total_sz_kb)
            ELSE cfg.record_sz_kb
        capped == Min(total_space_kb * BYTES_PER_KB, biggest_buf_size)
        total_xattr_space == xsize + xcount
    IN  IF total_xattr_space > capped THEN total_xattr_space ELSE capped

\* prepare_buf: where the buffer of the file numbered filenum starts
unique_offset(filenum) ==
    IF tid_is_int(cfg.tid)
    THEN ((int_tid(cfg.tid) + 1) * filenum) % max_buffer_offset
    ELSE filenum % max_buffer_offset

\* prepare_buf: self.buf for the file numbered filenum
prepare_buf(text, filenum) ==
    [k \in 1..total_space(xattr_size, xattr_count) |->
        biggest_buf(text, unique_offset(filenum) + k - 1)]

\* prepare_buf on the buffer made by create_biggest_buf: the assertion
\* myassert(total_space + unique_offset < len(self.biggest_buf)), then the
\* slice self.biggest_buf[unique_offset : total_space + unique_offset]
prepare_buf_asserts(buf, filenum) ==
    total_space(cfg.xattr_size, cfg.xattr_count) + unique_offset(filenum)
        < Len(buf)
prepare_buf_slice(buf, filenum) ==
    SubSeq(buf, unique_offset(filenum) + 1,
           Min(total_space(cfg.xattr_size, cfg.xattr_count)
                   + unique_offset(filenum), Len(buf)))

\* (a variant that takes 1 KB whenever a record size is set)
get_record_size_to_use_one_kb ==
    LET rszkb == IF cfg.record_sz_kb = 0 THEN cfg.total_sz_kb ELSE 1
    IN  Min(rszkb, biggest_buf_size \div BYTES_PER_KB)

get_record_size_to_use ==
    LET rszkb == IF cfg.record_sz_kb = 0 THEN cfg.total_sz_kb
                 ELSE cfg.record_sz_kb
    IN  Min(rszkb, biggest_buf_size \div BYTES_PER_KB)


(***************************************************************************)
(* The handlers' unit of work on one file                                  *)
(***************************************************************************)

\* what a unit of work returns: the workload object, the tree, how it ended
\* ("ok", "retry" after an on-demand mkdir, "OSError" or "MFRdWrExc"), the
\* errno of an OSError and the arguments of an MFRdWrExc
NoArgs == [matched |-> None, filenum |-> None, rq |-> None, bytes |-> None]
Done(s, f) == [s |-> s, f |-> f, out |-> "ok", err |-> ok, args |-> NoArgs]
Retry(s, f) == [s |-> s, f |-> f, out |-> "retry", err |-> ok, args |-> NoArgs]
OSError(s, f, e) ==
    [s |-> s, f |-> f, out |-> "OSError", err |-> e, args |-> NoArgs]
\* (a variant for which a failed transfer is no failure)
MFRdWrExc_ignored(s, f, a) ==
    [s |-> s, f |-> f, out |-> "ok", err |-> ok, args |-> NoArgs]

MFRdWrExc(s, f, a) ==
    [s |-> s, f |-> f, out |-> "MFRdWrExc", err |-> ok, args |-> a]
\* an SMFRunException raised by a handler, which do_workload does not catch
SMFRunException(s, f) ==
    [s |-> s, f |-> f, out |-> "SMFRunException", err |-> ok, args |-> NoArgs]
\* a handler that sleeps until another process changes the files
Waiting(s, f) ==
    [s |-> s, f |-> f, out |-> "wait", err |-> ok, args |-> NoArgs]

\* the local variables of do_readdir before its loop
readdir_locals ==
    [prev_dir |-> [tree |-> "", segs |-> <<>>], dir_map |-> {},
     file_count |-> 0]

put(f, fn, kind, data) ==
    [f EXCEPT !.files =
        [x \in DOMAIN @ \cup {fn} |->
            IF x = fn THEN [kind |-> kind, data |-> data] ELSE @[x]]]
unlink(f, fn) ==
    [f EXCEPT !.files = [x \in DOMAIN @ \ {fn} |-> @[x]],
              !.free = IF @ = None \/ fn \notin DOMAIN f.files THEN @
                       ELSE @ + Len(f.files[fn].data)]

\* extended attributes: (file, name) -> value, kept beside the files; a
\* name is its text up to the number and the number
ENODATA == 61
xattrs_of(f) == IF "xattrs" \in DOMAIN f THEN f.xattrs ELSE {}
has_xattr(f, fn, nm) == \E x \in xattrs_of(f) : x.fn = fn /\ x.nm = nm
getxattr(f, fn, nm) == (CHOOSE x \in xattrs_of(f) : x.fn = fn /\ x.nm = nm).v
setxattr(f, fn, nm, v) ==
    [f EXCEPT !.xattrs = {x \in @ : ~(x.fn = fn /\ x.nm = nm)}
                             \cup {[fn |-> fn, nm |-> nm, v |-> v]}]

\* binary_buf_str(b), then the bytes the xattr library stores for the text:
\* a byte below 128 as it is, a byte that is no UTF-8 text as the four
\* characters \xhh
HexDigit(n) == IF n < 10 THEN 48 + n ELSE 87 + n
RECURSIVE binary_buf_str(_)
binary_buf_str(b) ==
    IF b = <<>> THEN <<>>
    ELSE (IF Head(b) < 128 THEN <<Head(b)>>
          ELSE <<92, 120, HexDigit(Head(b) \div 16), HexDigit(Head(b) % 16)>>)
         \o binary_buf_str(Tail(b))

\* self.buf[j : self.xattr_size + j]
xattr_value(buf, j) == SubSeq(buf, j + 1, Min(xattr_size + j, Len(buf)))

\* remember_ctime_size_xattr(fd): the time and the size in KB of the file
remember_ctime_size_xattr(f, fn) ==
    setxattr(f, fn, <<"user.smallfile-ctime-size", 0>>,
             <<now, Len(f.files[fn].data) \div BYTES_PER_KB>>)

\* the write loop of do_create: every record is the front of self.buf
RECURSIVE write_records(_, _, _)
write_records(remaining_kb, rszkb, buf) ==
    IF remaining_kb <= 0 THEN <<>>
    ELSE LET next_kb == Min(rszkb, remaining_kb)
             rszbytes == next_kb * BYTES_PER_KB
         IN  SubSeq(buf, 1, Min(rszbytes, Len(buf)))
             \o write_records(remaining_kb - next_kb, rszkb, buf)

\* (a variant that goes on to the next file once the directory is made)
do_create_no_retry(s, f) ==
    LET fn == mk_file_nm(s, src_dirs, s.filenum)
    IN  IF ~dir_exists(f, dirname(fn))
        THEN (IF cfg.dirs_on_demand
              THEN Retry(s, makedirs(f, dirname(fn)))
              ELSE OSError([s EXCEPT !.status = ENOENT], f, ENOENT))
        ELSE IF file_exists(f, fn)
        THEN OSError([s EXCEPT !.status = EEXIST], f, EEXIST)
        ELSE Done(s, put(f, fn, "file", <<>>))

\* os.write(fd, record) at file position pos of a file that holds data,
\* with free bytes left on the device (None: no limit): the bytes that fit
\* are written, and when none fits the call fails with ENOSPC
os_write(data, pos, record, free) ==
    LET room == IF free = None THEN Len(record)
                ELSE Max(0, Len(data) - pos) + free
        written == Min(Len(record), room)
        grown == Max(0, pos + written - Len(data))
    IN  [written |-> IF written = 0 /\ Len(record) > 0 THEN None
                     ELSE written,
         data |-> SubSeq(data, 1, pos) \o SubSeq(record, 1, written)
                  \o SubSeq(data, pos + written + 1, Len(data)),
         free |-> IF free = None THEN None ELSE free - grown]

\* the write loops of do_create (rq counted after the check of the byte
\* count) and of do_write (rq counted before it)
RECURSIVE write_loop(_, _, _, _, _, _, _, _)
write_loop(remaining_kb, rszkb, buf, data, pos, free, rq, count_first) ==
    IF remaining_kb <= 0
    THEN [out |-> "ok", data |-> data, free |-> free, rq |-> rq,
          written |-> None]
    ELSE LET next_kb == Min(rszkb, remaining_kb)
             rszbytes == next_kb * BYTES_PER_KB
             w == os_write(data, pos, SubSeq(buf, 1, Min(rszbytes, Len(buf))),
                           free)
             rq1 == IF count_first THEN rq + 1 ELSE rq
         IN  IF w.written = None
             THEN [out |-> "OSError", data |-> data, free |-> free,
                   rq |-> rq, written |-> None]
             ELSE IF w.written # rszbytes
             THEN [out |-> "MFRdWrExc", data |-> w.data, free |-> w.free,
                   rq |-> rq1, written |-> w.written]
             ELSE write_loop(remaining_kb - next_kb, rszkb, buf, w.data,
                             pos + rszbytes, w.free, rq + 1, count_first)

\* do_create once the file fn is open and its write loop has ended as w
create_written(s, f, fn, w) ==
    LET s1 == [s EXCEPT !.randstate = after_file_size(@), !.rq = w.rq]
        f1 == [put(f, fn, "file", w.data) EXCEPT !.free = w.free]
    IN  IF w.out = "OSError"
        THEN OSError([s1 EXCEPT !.status = ENOSPC], f1, ENOSPC)
        ELSE IF w.out = "MFRdWrExc"
        THEN MFRdWrExc(s1, f1, [matched |-> None, filenum |-> s1.filenum,
                                rq |-> w.rq, bytes |-> w.written])
        ELSE IF record_ctime_size
        THEN Done(s1, remember_ctime_size_xattr(f1, fn))
        ELSE Done(s1, f1)

\* do_create with the file name fn
create_named(s, f, fn) ==
    IF ~dir_exists(f, dirname(fn))
    THEN (IF cfg.dirs_on_demand
          THEN Retry([s EXCEPT !.filenum = @ - 1], makedirs(f, dirname(fn)))
          ELSE OSError([s EXCEPT !.status = ENOENT], f, ENOENT))
    ELSE IF file_exists(f, fn)
    THEN OSError([s EXCEPT !.status = EEXIST], f, EEXIST)
    ELSE create_written(s, f, fn,
             write_loop(get_next_file_size(s.randstate),
                        get_record_size_to_use,
                        prepare_buf(s.thread_seed, s.filenum),
                        <<>>, 0, f.free, s.rq, FALSE))

do_create(s, f) == create_named(s, f, mk_file_nm(s, src_dirs, s.filenum))

\* do_write: do_append, do_overwrite and do_truncate_overwrite
\* do_write once the file fn is open and its write loop has ended as w
write_written(s, f0, fn, w) ==
    LET s1 == [s EXCEPT !.randstate = after_file_size(@), !.rq = w.rq]
        f1 == [put(f0, fn, "file", w.data) EXCEPT !.free = w.free]
    IN  IF w.out = "OSError" THEN OSError(s1, f1, ENOSPC)
        ELSE IF w.out = "MFRdWrExc"
        THEN MFRdWrExc(s1, f1, [matched |-> None, filenum |-> s1.filenum,
                                rq |-> w.rq, bytes |-> w.written])
        ELSE IF record_ctime_size
        THEN Done(s1, remember_ctime_size_xattr(f1, fn))
        ELSE Done(s1, f1)

\* do_write on the open file fn that holds old
write_opened(s, f0, fn, old, append) ==
    write_written(s, f0, fn,
        write_loop(get_next_file_size(s.randstate), get_record_size_to_use,
                   prepare_buf(s.thread_seed, s.filenum), old,
                   IF append THEN Len(old) ELSE 0, f0.free, s.rq, TRUE))

\* do_write with the file name fn
write_named(s, f, fn, append, truncate) ==
    IF ~file_exists(f, fn) THEN OSError(s, f, ENOENT)
    ELSE IF truncate
    THEN write_opened(s, put(unlink(f, fn), fn, "file", <<>>), fn, <<>>,
                      append)
    ELSE write_opened(s, f, fn, f.files[fn].data, append)

do_write(s, f, append, truncate) ==
    write_named(s, f, mk_file_nm(s, src_dirs, s.filenum), append, truncate)
do_append(s, f) == do_write(s, f, TRUE, FALSE)
do_overwrite(s, f) == do_write(s, f, FALSE, FALSE)

\* the index of the first byte at which two records of one length differ
bytes_matched(buf, bytesread) ==
    CHOOSE k \in 0..(Len(bytesread) - 1) :
        /\ buf[k + 1] # bytesread[k + 1]
        /\ \A m \in 0..(k - 1) : buf[m + 1] = bytesread[m + 1]

\* the read loop of do_read from file position pos
RECURSIVE read_records(_, _, _, _, _, _)
read_records(remaining_kb, rszkb, buf, data, pos, s) ==
    IF remaining_kb <= 0
    THEN [s |-> s, ok |-> TRUE, args |-> NoArgs]
    ELSE LET next_kb == Min(rszkb, remaining_kb)
             rszbytes == next_kb * BYTES_PER_KB
             bytesread == SubSeq(data, pos + 1, Min(pos + rszbytes, Len(data)))
             expected == SubSeq(buf, 1, Min(rszbytes, Len(buf)))
             s1 == [s EXCEPT !.rq = @ + 1]
         IN  IF Len(bytesread) # rszbytes
             THEN [s |-> s1, ok |-> FALSE,
                   args |-> [matched |-> None, filenum |-> s1.filenum,
                             rq |-> s1.rq, bytes |-> Len(bytesread)]]
             ELSE IF cfg.verify_read /\ expected # bytesread
             THEN [s |-> s1, ok |-> FALSE,
                   args |-> [matched |-> bytes_matched(expected, bytesread),
                             filenum |-> s1.filenum,
                             rq |-> s1.rq, bytes |-> Len(bytesread)]]
             ELSE read_records(remaining_kb - next_kb, rszkb, buf, data,
                               pos + rszbytes, s1)

do_read(s, f) ==
    LET fn == mk_file_nm(s, src_dirs, s.filenum)
        next_fsz == get_next_file_size(s.randstate)
        s1 == [s EXCEPT !.randstate = after_file_size(@)]
        buf == prepare_buf(s.thread_seed, s.filenum)
        r == read_records(next_fsz, get_record_size_to_use, buf,
                          f.files[fn].data, 0, s1)
    IN  IF ~file_exists(f, fn) THEN OSError(s1, f, ENOENT)
        ELSE IF r.ok THEN Done(r.s, f)
        ELSE MFRdWrExc(r.s, f, r.args)

do_mkdir(s, f) ==
    LET dir == with_ext(mk_file_nm(s, src_dirs, s.filenum), ".d")
    IN  IF ~dir_exists(f, dirname(dir))
        THEN (IF cfg.dirs_on_demand
              THEN Retry([s EXCEPT !.filenum = @ - 1],
                         makedirs(f, dirname(dir)))
              ELSE OSError(s, f, ENOENT))
        ELSE IF file_exists(f, dir) THEN OSError(s, f, EEXIST)
        ELSE Done(s, put(f, dir, "dir", <<>>))

do_rmdir(s, f) ==
    LET dir == with_ext(mk_file_nm(s, src_dirs, s.filenum), ".d")
    IN  IF ~file_exists(f, dir) THEN OSError(s, f, ENOENT)
        ELSE Done(s, unlink(f, dir))

do_symlink(s, f) ==
    LET fn2 == with_ext(mk_file_nm(s, dest_dirs, s.filenum), ".s")
    IN  IF ~dir_exists(f, dirname(fn2)) THEN OSError(s, f, ENOENT)
        ELSE IF file_exists(f, fn2) THEN OSError(s, f, EEXIST)
        ELSE Done(s, put(f, fn2, "symlink", <<>>))

\* the loop body of do_readdir (directories by file number; with hashed
\* directories the handler raises before its loop).  A name in dir_map is
\* the file number and the extension; the names of subdirectories begin
\* with "d" and are left out
do_readdir(s, f) ==
    LET fn == mk_file_nm(s, src_dirs, s.filenum)
        common_dir == [tree |-> fn.tree, segs |-> fn.segs]
        next_dirs == {[tree |-> fn.tree, top |-> t, segs |-> fn.segs] :
                         t \in 0..(cfg.tops - 1)}
        listed == {[idx |-> x.idx, ext |-> x.ext] :
                      x \in {y \in DOMAIN f.files : dirname(y) \in next_dirs}}
        changes == common_dir # s.prev_dir
        s1 == IF changes
              THEN [s EXCEPT !.prev_dir = common_dir, !.dir_map = listed,
                             !.file_count = 1]
              ELSE [s EXCEPT !.file_count = @ + 1]
        args == [matched |-> None, filenum |-> s.filenum, rq |-> s.rq,
                 bytes |-> 0]
    IN  IF changes /\ s.file_count # Cardinality(s.dir_map)
        THEN MFRdWrExc(s, f, args)
        ELSE IF changes /\ \E d \in next_dirs : ~dir_exists(f, d)
        THEN OSError(s, f, ENOENT)
        ELSE IF [idx |-> fn.idx, ext |-> fn.ext] \notin s1.dir_map
        THEN MFRdWrExc(s1, f, args)
        ELSE Done(s1, f)

do_stat(s, f) ==
    LET fn == mk_file_nm(s, src_dirs, s.filenum)
    IN  IF ~file_exists(f, fn) THEN OSError(s, f, ENOENT) ELSE Done(s, f)

in_same_dir == dest_dirs = src_dirs

\* (a variant that leaves the file under its old name as well)
do_rename_linked(s, f) ==
    LET fn1 == mk_file_nm(s, src_dirs, s.filenum)
        fn2 == IF in_same_dir
               THEN with_ext(mk_file_nm(s, dest_dirs, s.filenum), ".rnm")
               ELSE mk_file_nm(s, dest_dirs, s.filenum)
    IN  IF ~file_exists(f, fn1) \/ ~dir_exists(f, dirname(fn2))
        THEN OSError(s, f, ENOENT)
        ELSE Done(s, put(f, fn2, f.files[fn1].kind, f.files[fn1].data))

do_rename(s, f) ==
    LET fn1 == mk_file_nm(s, src_dirs, s.filenum)
        fn2 == IF in_same_dir
               THEN with_ext(mk_file_nm(s, dest_dirs, s.filenum), ".rnm")
               ELSE mk_file_nm(s, dest_dirs, s.filenum)
    IN  IF ~file_exists(f, fn1) \/ ~dir_exists(f, dirname(fn2))
        THEN OSError(s, f, ENOENT)
        ELSE Done(s, put(unlink(f, fn1), fn2,
                         f.files[fn1].kind, f.files[fn1].data))

do_delete(s, f) ==
    LET fn == mk_file_nm(s, src_dirs, s.filenum)
    IN  IF ~file_exists(f, fn) THEN OSError(s, f, ENOENT)
        ELSE Done(s, unlink(f, fn))

do_delete_renamed(s, f) ==
    LET fn == IF in_same_dir
              THEN with_ext(mk_file_nm(s, dest_dirs, s.filenum), ".rnm")
              ELSE mk_file_nm(s, dest_dirs, s.filenum)
    IN  IF ~file_exists(f, fn) THEN OSError(s, f, ENOENT)
        ELSE Done(s, unlink(f, fn))

\* the loop body of do_cleanup: whatever a run may have left for this file
\* number is deleted if it is there
do_cleanup(s, f) ==
    LET basenm == mk_file_nm(s, src_dirs, s.filenum)
        f1 == unlink(f, with_ext(mk_file_nm(s, dest_dirs, s.filenum), ".s"))
        f2 == unlink(f1, basenm)
        f3 == unlink(f2, with_ext(basenm, ".rnm"))
        f4 == unlink(f3, mk_file_nm(s, dest_dirs, s.filenum))
        f5 == unlink(f4, with_ext(basenm, ".rnm"))
    IN  Done(s, unlink(f5, with_ext(basenm, ".d")))

do_truncate_overwrite(s, f) == do_write(s, f, FALSE, TRUE)

\* do_setxattr: the attributes 0 .. xattr_count - 1 from j on
RECURSIVE set_xattrs(_, _, _, _, _)
set_xattrs(f, fn, prefix, buf, j) ==
    IF j >= xattr_count THEN f
    ELSE set_xattrs(setxattr(f, fn, <<prefix, j>>,
                             binary_buf_str(xattr_value(buf, j))),
                    fn, prefix, buf, j + 1)

do_setxattr(s, f) ==
    LET fn == mk_file_nm(s, src_dirs, s.filenum)
    IN  IF ~file_exists(f, fn) THEN OSError(s, f, ENOENT)
        ELSE Done(s, set_xattrs(f, fn, "user.smallfile-",
                                prepare_buf(s.thread_seed, s.filenum), 0))

\* do_getxattr: the first attribute that is missing or differs, if any
xattr_wrong(f, fn, buf, j) ==
    \/ ~has_xattr(f, fn, <<"user.smallfile-", j>>)
    \/ xattr_value(buf, j) # getxattr(f, fn, <<"user.smallfile-", j>>)
getxattr_failed(s, f, fn, j) ==
    IF ~has_xattr(f, fn, <<"user.smallfile-", j>>)
    THEN OSError(s, f, ENODATA)
    ELSE MFRdWrExc(s, f,
             [matched |-> None, filenum |-> s.filenum, rq |-> j,
              bytes |-> Len(getxattr(f, fn, <<"user.smallfile-", j>>))])
getxattr_checked(s, f, fn, wrong) ==
    IF wrong = {} THEN Done(s, f)
    ELSE getxattr_failed(s, f, fn,
                         CHOOSE j \in wrong : \A k \in wrong : j <= k)
do_getxattr(s, f) ==
    LET fn == mk_file_nm(s, src_dirs, s.filenum)
    IN  IF xattr_count > 0 /\ ~file_exists(f, fn) THEN OSError(s, f, ENOENT)
        ELSE getxattr_checked(s, f, fn,
                 {j \in 0..(xattr_count - 1) :
                     xattr_wrong(f, fn,
                                 prepare_buf(s.thread_seed, s.filenum), j)})

\* the read loop of do_swift_get from file position pos: rq counts the
\* records that were read and found right
RECURSIVE swift_read_records(_, _, _, _, _, _)
swift_read_records(remaining_kb, rszkb, buf, data, pos, s) ==
    IF remaining_kb <= 0
    THEN [s |-> s, ok |-> TRUE, args |-> NoArgs]
    ELSE LET next_kb == Min(rszkb, remaining_kb)
             rszbytes == next_kb * BYTES_PER_KB
             bytesread == SubSeq(data, pos + 1, Min(pos + rszbytes, Len(data)))
             expected == SubSeq(buf, 1, Min(rszbytes, Len(buf)))
         IN  IF Len(bytesread) # rszbytes \/
                (cfg.verify_read /\ expected # bytesread)
             THEN [s |-> s, ok |-> FALSE,
                   args |-> [matched |-> None, filenum |-> s.filenum,
                             rq |-> s.rq, bytes |-> Len(bytesread)]]
             ELSE swift_read_records(remaining_kb - next_kb, rszkb, buf, data,
                                     pos + rszbytes, [s EXCEPT !.rq = @ + 1])

\* do_swift_get: the attributes user.smallfile-all-<j> are read after the
\* data, and a missing one (ENODATA) is passed over
swift_get_read(r, f) ==
    IF r.ok THEN Done(r.s, f) ELSE MFRdWrExc(r.s, f, r.args)
do_swift_get(s, f) ==
    LET fn == mk_file_nm(s, src_dirs, s.filenum)
        s1 == [s EXCEPT !.randstate = after_file_size(@)]
    IN  IF ~file_exists(f, fn) THEN OSError(s1, f, ENOENT)
        ELSE swift_get_read(
                 swift_read_records(get_next_file_size(s.randstate),
                                    get_record_size_to_use,
                                    prepare_buf(s.thread_seed, s.filenum),
                                    f.files[fn].data, 0, s1), f)

\* do_await_create: sleeps while the file or its ctime-size attribute is
\* missing, spins while the file is smaller than the recorded size, raises
\* when it is larger
await_sized(s, f, size, original_sz_kb) ==
    IF size > original_sz_kb * BYTES_PER_KB THEN SMFRunException(s, f)
    ELSE IF size = original_sz_kb * BYTES_PER_KB THEN Done(s, f)
    ELSE Waiting(s, f)
do_await_create(s, f) ==
    LET fn == mk_file_nm(s, src_dirs, s.filenum)
    IN  IF ~file_exists(f, fn) THEN Waiting(s, f)
        ELSE IF ~has_xattr(f, fn, <<"user.smallfile-ctime-size", 0>>)
        THEN Waiting(s, f)
        ELSE await_sized(s, f, Len(f.files[fn].data),
                 getxattr(f, fn, <<"user.smallfile-ctime-size", 0>>)[2])

\* ensure_deleted(fn): the file and its attributes are gone afterwards
ensure_deleted(f, fn) ==
    IF "xattrs" \in DOMAIN f
    THEN [unlink(f, fn) EXCEPT !.xattrs = {x \in @ : x.fn # fn}]
    ELSE unlink(f, fn)

\* os.open(fn, O_WRONLY | O_CREAT): the file is made when it is missing
open_creat(f, fn) == IF file_exists(f, fn) THEN f ELSE put(f, fn, "file", <<>>)

\* fallocate.fallocate(fd, 0, 0, fszbytes): the file is made fszbytes long if
\* it is shorter; without the room for that the call returns -1
fallocate(f, fn, fszbytes) ==
    LET data == f.files[fn].data
        needed == Max(0, fszbytes - Len(data))
    IN  IF f.free # None /\ needed > f.free
        THEN [ret |-> -1, f |-> f]
        ELSE [ret |-> ok,
              f |-> [put(f, fn, "file",
                         data \o [k \in 1..needed |-> 0])
                       EXCEPT !.free = IF @ = None THEN @ ELSE @ - needed]]

\* os.rename(fn, fn2): the file and its attributes take the name fn2, and
\* what had that name is gone
rename_file(f, fn, fn2) ==
    LET kept == ensure_deleted(f, fn2)
        moved == [put(kept, fn2, kept.files[fn].kind, kept.files[fn].data)
                    EXCEPT !.files = [x \in DOMAIN @ \ {fn} |-> @[x]]]
    IN  IF "xattrs" \in DOMAIN f
        THEN [moved EXCEPT !.xattrs =
                 {IF x.fn = fn THEN [x EXCEPT !.fn = fn2] ELSE x : x \in @}]
        ELSE moved

\* do_swift_put once the write loop on the ".tmp" file fn has ended as w: the
\* attributes are set and the file renamed, or the exception handler
\* deletes fn
swift_put_written(s, f, fn, fn2, buf, w) ==
    LET f1 == [put(f, fn, "file", w.data) EXCEPT !.free = w.free]
    IN  IF w.out = "OSError"
        THEN OSError(s, ensure_deleted(f1, fn), ENOSPC)
        ELSE IF w.out = "MFRdWrExc"
        THEN MFRdWrExc(s, ensure_deleted(f1, fn),
                       [matched |-> None, filenum |-> s.filenum,
                        rq |-> s.rq, bytes |-> w.written])
        ELSE Done([s EXCEPT !.rq = @ + 1],
                  rename_file(set_xattrs(f1, fn, "user.smallfile-all-",
                                         buf, 0), fn, fn2))

\* do_swift_put once fallocate has returned a
swift_put_allocated(s, fn, fn2, next_fsz, buf, a) ==
    IF a.ret # ok THEN SMFRunException(s, ensure_deleted(a.f, fn))
    ELSE swift_put_written(s, a.f, fn, fn2, buf,
             write_loop(next_fsz, get_record_size_to_use, buf,
                        a.f.files[fn].data, 0, a.f.free, s.rq, FALSE))

do_swift_put(s, f) ==
    LET fn2 == mk_file_nm(s, src_dirs, s.filenum)
        fn == with_ext(fn2, ".tmp")
        s1 == [s EXCEPT !.randstate = after_file_size(@)]
    IN  IF ~dir_exists(f, dirname(fn)) THEN OSError(s1, f, ENOENT)
        ELSE swift_put_allocated(s1, fn, fn2,
                 get_next_file_size(s.randstate),
                 prepare_buf(s.thread_seed, s.filenum),
                 fallocate(open_creat(f, fn), fn,
                           get_next_file_size(s.randstate) * BYTES_PER_KB))

\* the check of the optional modules with which a handler begins
module_missing_never(o) == FALSE
module_missing(o) ==
    \/ o \in {"getxattr", "setxattr", "swift-get", "await-create"}
          /\ ~xattr_installed
    \/ o = "swift-put"
          /\ (~xattr_installed \/ ~fallocate_installed \/ ~fadvise_installed)
    \/ o \in {"create", "append", "overwrite", "truncate-overwrite"}
          /\ record_ctime_size /\ ~xattr_installed

\* SmallfileWorkload.workloads
workloads(o, s, f) ==
    CASE o = "create" -> do_create(s, f)
      [] o = "append" -> do_append(s, f)
      [] o = "overwrite" -> do_overwrite(s, f)
      [] o = "read" -> do_read(s, f)
      [] o = "readdir" -> do_readdir(s, f)
      [] o = "mkdir" -> do_mkdir(s, f)
      [] o = "rmdir" -> do_rmdir(s, f)
      [] o = "symlink" -> do_symlink(s, f)
      [] o = "stat" -> do_stat(s, f)
      [] o = "rename" -> do_rename(s, f)
      [] o = "delete" -> do_delete(s, f)
      [] o = "delete-renamed" -> do_delete_renamed(s, f)
      [] o = "cleanup" -> do_cleanup(s, f)
      [] o = "truncate-overwrite" -> do_truncate_overwrite(s, f)
      [] o = "getxattr" -> do_getxattr(s, f)
      [] o = "setxattr" -> do_setxattr(s, f)
      [] o = "swift-get" -> do_swift_get(s, f)
      [] o = "swift-put" -> do_swift_put(s, f)
      [] o = "await-create" -> do_await_create(s, f)


(***************************************************************************)
(* Specifications SpecData and SpecTree: a test driver runs one workload   *)
(* after the other on one object and one tree (Test.runTest)               *)
(***************************************************************************)

MaxRuns == 3
MaxSzKb == 2

\* what the driver keeps of a run that is over
run_result(o, raised, s, f) ==
    [op |-> o, raised |-> raised, exc |-> s.exc, args |-> s.args,
     status |-> s.status, filenum |-> s.filenum,
     filenum_final |-> s.filenum_final, rq |-> s.rq, rq_final |-> s.rq_final,
     thread_seed |-> s.thread_seed, file_dirs |-> s.file_dirs,
     units |-> tst.units,
     corrupt |-> tst.corrupt, before |-> tst.before, after |-> f]

run_over(o, raised, s, f) ==
    [tst EXCEPT !.pc = "idle", !.hist = Append(@, run_result(o, raised, s, f))]

\* a run that raises before its handler has worked on a file
run_raised(o, s, f) ==
    [tst EXCEPT !.pc = "idle", !.units = <<>>, !.before = fsys,
                !.hist = Append(@, [run_result(o, TRUE, s, f)
                                      EXCEPT !.units = <<>>,
                                             !.before = fsys])]

\* init_random_seed: create writes "<time> <tid>" to the seed file and uses
\* it; any other operation uses the stripped first line of the seed file, or
\* the clock reading when there is no seed file (seed = <<>>: no file)
init_random_seed(o, f, t) ==
    IF o \in {"create", "swift-put"}
    THEN time_text(t) \o <<SPACE>> \o tid_text(cfg.tid)
    ELSE IF f.seed # <<>> THEN strip(f.seed)
    ELSE time_text(t)

\* the keys of SmallfileWorkload.workloads; the lookup of any other name
\* raises KeyError, and the handler of KeyError in do_workload reads the
\* attribute ENOKEY of the exception, which it does not have: AttributeError
\* leaves do_workload
known_workloads ==
    {"create", "delete", "symlink", "mkdir", "rmdir", "readdir", "ls-l",
     "stat", "getxattr", "setxattr", "chmod", "append", "overwrite",
     "truncate-overwrite", "read", "rename", "delete-renamed", "cleanup",
     "swift-put", "swift-get", "await-create"}
KeyError(o) == o \notin known_workloads

\* Test.runTest(opName): delete the stonewall file, set the operation, and
\* do_workload up to the handler's loop
run_test(o) ==
    /\ tst.pc = "idle"
    /\ Len(tst.hist) < tst.max_runs
    /\ o \in tst.ops
    /\ cfg' = [cfg EXCEPT !.opname = o]
    /\ netfs' = netfs \ {"stonewall"}
    /\ now' = now + 1
    /\ LET makes == o \in {"create", "mkdir", "swift-put"}
           thread_seed == init_random_seed(o, fsys, now')
           s0 == [reset(cfg) @@ readdir_locals @@
                    [thread_seed |-> <<>>, randstate |-> rand_seed(<<>>),
                     args |-> NoArgs]
                    EXCEPT !.file_dirs = @ \o file_dirs]
           f1 == IF makes THEN make_all_subdirs(s0, fsys, "abort" \in netfs)
                 ELSE fsys
           f2 == IF o \in {"create", "swift-put"}
                 THEN [f1 EXCEPT !.seed = thread_seed] ELSE f1
           s1 == [s0 EXCEPT
                    !.thread_seed = thread_seed,
                    !.randstate = [seed |-> thread_seed,
                                   n |-> biggest_buf_draws],
                    !.files_between_checks =
                        files_between_checks_for(cfg.total_sz_kb, @),
                    !.start_time = now',
                    !.stonewall = IF o = "cleanup" THEN FALSE ELSE @,
                    !.finish_all_rq = IF o = "cleanup" THEN TRUE ELSE @]
       IN  IF makes /\ dirset_raises(s0)
           THEN /\ invok' = [s0 EXCEPT !.exc = "IndexError"]
                /\ fsys' = fsys
                /\ tst' = run_raised(o, invok', fsys)
           ELSE IF KeyError(o)
           THEN /\ invok' = [s1 EXCEPT !.exc = "AttributeError"]
                /\ fsys' = f2
                /\ tst' = run_raised(o, invok', f2)
           ELSE IF module_missing(o) \/ (o = "readdir" /\ cfg.hash_to_dir)
           THEN /\ invok' = [s1 EXCEPT !.exc = "SMFRunException"]
                /\ fsys' = f2
                /\ tst' = run_raised(o, invok', f2)
           ELSE /\ invok' = s1
                /\ fsys' = f2
                /\ tst' = [tst EXCEPT !.pc = "running", !.units = <<>>,
                                      !.before = fsys]
    /\ UNCHANGED <<wk, pc, ready, worked, swM, obs, touched>>

\* one pass of the handler's loop: do_another_file returns True and the unit
\* of work on file number filenum is done; an OSError or MFRdWrExc ends the
\* run in do_workload, which records the status and returns it
\* the unit of work on file number filenum has ended as u
file_unit_over(filenum, u, failed) ==
    /\ u.out # "wait"
    /\ fsys' = u.f
    /\ IF u.out \in {"ok", "retry"}
       THEN /\ invok' = u.s
            /\ tst' = [tst EXCEPT !.units =
                         IF u.out = "ok" THEN Append(@, filenum) ELSE @]
            /\ cfg' = cfg
       ELSE /\ invok' = failed
            /\ tst' = run_over(cfg.opname, u.out = "SMFRunException", failed,
                                u.f)
            /\ cfg' = [cfg EXCEPT !.stonewall = failed.stonewall,
                                  !.finish_all_rq = failed.finish_all_rq]

\* (a variant that records the kind of exception and not its error code)
unit_failed_status_kept(u) ==
    [u.s EXCEPT !.exc = u.out, !.args = u.args]

\* what do_workload records of a unit of work that raised
unit_failed(u) ==
    [u.s EXCEPT !.status = IF u.out = "OSError" THEN u.err
                           ELSE IF u.out = "MFRdWrExc" THEN EIO ELSE @,
                !.exc = u.out, !.args = u.args]

file_unit_done(filenum, u) == file_unit_over(filenum, u, unit_failed(u))

\* do_another_file has returned r
file_unit(r) ==
    /\ r.ret = "true"
    /\ file_unit_done(r.s.filenum, workloads(cfg.opname, r.s, fsys))

do_file_unit ==
    /\ tst.pc = "running"
    /\ file_unit(do_another_file(invok, now, "stonewall" \in netfs))
    /\ UNCHANGED <<netfs, now, wk, pc, ready, worked, swM, obs, touched>>

\* do_another_file returns False or raises: end_test has written the
\* stonewall file if it had to, do_cleanup removes the empty directories
\* (or raises IndexError while it lists them) and restores its two flags,
\* and do_workload returns the status
handler_end ==
    /\ tst.pc = "running"
    /\ LET r == do_another_file(invok, now, "stonewall" \in netfs)
           cleans == cfg.opname = "cleanup"
           raises == r.ret = "raise" \/ (cleans /\ dirset_raises(r.s))
           s1 == IF r.ret = "raise" THEN [r.s EXCEPT !.exc = r.exc]
                 ELSE IF raises THEN [r.s EXCEPT !.exc = "IndexError"]
                 ELSE [r.s EXCEPT !.stonewall = cfg.stonewall,
                                  !.finish_all_rq = cfg.finish_all_rq]
           f1 == IF cleans /\ ~raises THEN clean_all_subdirs(r.s, fsys)
                 ELSE fsys
       IN  /\ r.ret # "true"
           /\ netfs' = IF r.ret = "touch" THEN netfs \cup {"stonewall"}
                       ELSE netfs
           /\ invok' = s1
           /\ fsys' = f1
           /\ tst' = run_over(cfg.opname, raises, s1, f1)
           /\ cfg' = [cfg EXCEPT !.stonewall = s1.stonewall,
                                 !.finish_all_rq = s1.finish_all_rq]
    /\ UNCHANGED <<now, wk, pc, ready, worked, swM, obs, touched>>

\* Test.test_h2_read_bad_data: after a complete create run the test changes
\* one byte of a file; what follows is one read run
CorruptDeltas == {1, 255}
corrupt ==
    /\ tst.pc = "idle"
    /\ tst.corrupt.idx = 0
    /\ tst.hist # <<>>
    /\ LET last == tst.hist[Len(tst.hist)] IN
         last.op = "create" /\ ~last.raised /\ last.status = ok
    /\ \E fn \in DOMAIN fsys.files :
         /\ fsys.files[fn].kind = "file"
         /\ fn.tree = src_dirs
         /\ fn.ext = ""
         /\ \E p \in 1..Len(fsys.files[fn].data) : \E d \in CorruptDeltas :
              /\ fsys' = [fsys EXCEPT !.files[fn].data[p] = (@ + d) % 256]
              /\ tst' = [tst EXCEPT !.corrupt =
                           [idx |-> fn.idx, pos |-> p - 1,
                            at |-> Len(tst.hist)],
                                      !.ops = {"read"},
                                      !.max_runs = Len(tst.hist) + 1]
    /\ UNCHANGED <<cfg, invok, netfs, now, wk, pc, ready, worked, swM, obs,
                   touched>>

Tids == {"", "00"}
DataOps == {"create", "read"}
TreeOps == {"create", "mkdir", "symlink", "rename", "cleanup"}

DataConfigs ==
    [opname : {"cleanup"}, iterations : 1..MaxIter,
     files_between_checks : {default_files_between_checks},
     total_sz_kb : 1..MaxSzKb, record_sz_kb : 0..1,
     stonewall : {TRUE}, finish_all_rq : {FALSE}, starting_gate : {FALSE},
     files_per_dir : {2}, dirs_per_dir : {2}, tops : {1},
     hash_to_dir : {FALSE}, dirs_on_demand : {FALSE},
     is_shared_dir : {FALSE},
     tid : Tids, incompressible : BOOLEAN,
     filesize_distr : {"fixed", "random_exponential"},
     verify_read : {TRUE}]

TreeConfigs ==
    [opname : {"cleanup"}, iterations : 1..MaxIter,
     files_between_checks : {default_files_between_checks},
     total_sz_kb : {1}, record_sz_kb : {0},
     stonewall : {TRUE}, finish_all_rq : {FALSE}, starting_gate : {FALSE},
     files_per_dir : 1..2, dirs_per_dir : {2}, tops : 1..2,
     hash_to_dir : BOOLEAN, dirs_on_demand : {FALSE},
     is_shared_dir : {FALSE},
     tid : {"00"}, incompressible : {FALSE},
     filesize_distr : {"fixed"},
     verify_read : {TRUE}]

InitDisk(configs, ops, runs, frees) ==
    /\ cfg \in configs
    /\ wk = [w \in Workers |-> reset(cfg)]
    /\ pc = [w \in Workers |-> "idle"]
    /\ netfs = {}
    /\ ready = {}
    /\ now = 0
    /\ worked = [w \in Workers |-> <<>>]
    /\ swM = [w \in Workers |-> None]
    /\ obs = [w \in Workers |-> None]
    /\ touched = [w \in Workers |-> 0]
    /\ invok = reset(cfg) @@ readdir_locals @@
                 [thread_seed |-> <<>>, randstate |-> rand_seed(<<>>),
                  args |-> NoArgs]
    /\ \E free \in frees :
           fsys = [files |-> [fn \in {} |-> <<>>], dirs |-> {},
                   seed |-> <<>>, free |-> free]
    /\ tst = [pc |-> "idle", ops |-> ops, max_runs |-> runs,
              hist |-> <<>>, units |-> <<>>,
              corrupt |-> [idx |-> 0, pos |-> 0, at |-> 0], before |-> fsys]

InitRuns(configs, ops, runs) == InitDisk(configs, ops, runs, {None})

InitData == InitRuns(DataConfigs, DataOps, MaxRuns)
InitTree == InitRuns(TreeConfigs, TreeOps, MaxRuns + 1)

NextData ==
    \/ \E o \in DataOps : run_test(o)
    \/ do_file_unit
    \/ handler_end
    \/ corrupt

NextTree ==
    \/ \E o \in TreeOps : run_test(o)
    \/ do_file_unit
    \/ handler_end

SpecData == InitData /\ [][NextData]_vars
SpecTree == InitTree /\ [][NextTree]_vars

\* Specification SpecNames: mk_dir_name and mk_file_nm applied to the file
\* numbers of a configuration (Test.test_j0_dir_name, test_j2_deep_hashed_tree)
MaxIndex == 30
MaxFpd == 3
MaxDpd == 4
MaxTops == 2

\* the configurations of the tests, with the file number they name
NameExamples ==
    {[files_per_dir |-> 20, dirs_per_dir |-> 3, iterations |-> 200,
      hash_to_dir |-> FALSE, tops |-> 1, index |-> 29 * 20,
      prefix |-> <<"p">>, onhost |-> <<"h">>, tid |-> <<"0", "0">>,
      suffix |-> <<"s">>],
     [files_per_dir |-> 20, dirs_per_dir |-> 7, iterations |-> 200,
      hash_to_dir |-> FALSE, tops |-> 1, index |-> 320 * 20,
      prefix |-> <<"p">>, onhost |-> <<"h">>, tid |-> <<"0", "0">>,
      suffix |-> <<"s">>],
     [files_per_dir |-> 5, dirs_per_dir |-> 4, iterations |-> 500,
      hash_to_dir |-> TRUE, tops |-> 1, index |-> 499,
      prefix |-> <<"p">>, onhost |-> <<"h">>, tid |-> <<"0", "0">>,
      suffix |-> <<"s">>]}

NameConfigs ==
    [files_per_dir : 1..MaxFpd, dirs_per_dir : 2..MaxDpd,
     iterations : (1..MaxIter) \cup {40}, hash_to_dir : BOOLEAN,
     tops : 1..MaxTops, index : {0}, prefix : {<<"p">>}, onhost : {<<"h">>},
     tid : {<<>>, <<"0", "0">>}, suffix : {<<"s">>}]
    \cup NameExamples

InitNames ==
    /\ cfg \in NameConfigs
    /\ wk = [w \in Workers |-> 0]
    /\ pc = [w \in Workers |-> "idle"]
    /\ netfs = {}
    /\ ready = {}
    /\ now = 0
    /\ worked = [w \in Workers |-> <<>>]
    /\ swM = [w \in Workers |-> None]
    /\ obs = [w \in Workers |-> None]
    /\ touched = [w \in Workers |-> 0]
    /\ invok = [file_dirs |-> file_dirs]
    /\ fsys = [files |-> [fn \in {} |-> <<>>], dirs |-> {}, seed |-> <<>>,
              free |-> None]
    /\ tst = [pc |-> "names", call |-> "", index |-> None, raised |-> FALSE,
              pathlist |-> <<>>, name |-> <<>>]

\* d = self.invok.mk_dir_name(file_num)
name_dir(file_num) ==
    /\ tst.pc = "names"
    /\ tst' = [tst EXCEPT !.call = "mk_dir_name", !.index = file_num,
                          !.raised = FALSE,
                          !.pathlist = mk_dir_name(file_num),
                          !.name = os_sep_join(mk_dir_name(file_num))]
    /\ UNCHANGED <<cfg, wk, pc, netfs, ready, now, worked, swM, obs, touched,
                   invok, fsys>>

\* fn = ivk.mk_file_nm(ivk.src_dirs, filenum) after do_workload has filled
\* file_dirs; a file number past the end of file_dirs raises IndexError
name_file(filenum) ==
    /\ tst.pc = "names"
    /\ tst' = IF IndexError(invok, filenum)
              THEN [tst EXCEPT !.call = "mk_file_nm", !.index = filenum,
                               !.raised = TRUE, !.pathlist = <<>>,
                               !.name = <<>>]
              ELSE LET fn == mk_file_nm(invok, src_dirs, filenum) IN
                   [tst EXCEPT !.call = "mk_file_nm", !.index = filenum,
                               !.raised = FALSE, !.pathlist = fn.segs,
                               !.name = path_text(fn)]
    /\ UNCHANGED <<cfg, wk, pc, netfs, ready, now, worked, swM, obs, touched,
                   invok, fsys>>

NextNames ==
    \E i \in (0..MaxIndex) \cup {cfg.index} : name_dir(i) \/ name_file(i)
SpecNames == InitNames /\ [][NextNames]_vars

\* Specification SpecPause: the pacing controller (auto_pause).  Times are
\* whole clock ticks of one second; the floating-point quantities derived
\* from them are exact fractions [n, d] in lowest terms.
RECURSIVE GCD(_, _)
GCD(a, b) == IF b = 0 THEN a ELSE GCD(b, a % b)
Rat(n, d) ==
    IF n = 0 THEN [n |-> 0, d |-> 1]
    ELSE LET g == GCD(n, d) IN [n |-> n \div g, d |-> d \div g]
RatAdd(a, b) ==
    LET l == (a.d \div GCD(a.d, b.d)) * b.d
    IN  Rat(a.n * (l \div a.d) + b.n * (l \div b.d), l)
RatMul(a, b) ==
    LET x == Rat(a.n, b.d)
        y == Rat(b.n, a.d)
    IN  Rat(x.n * y.n, x.d * y.d)
RatDiv(a, b) == RatMul(a, [n |-> b.d, d |-> b.n])
\* a <= b, by whole parts and then by the inverted fractional parts, so that
\* no product of a numerator and a denominator is formed
RECURSIVE RatLe(_, _)
RatLe(a, b) ==
    LET qa == a.n \div a.d
        qb == b.n \div b.d
        ra == a.n % a.d
        rb == b.n % b.d
    IN  IF qa # qb THEN qa < qb
        ELSE IF ra = 0 THEN TRUE
        ELSE IF rb = 0 THEN FALSE
        ELSE RatLe([n |-> b.d, d |-> rb], [n |-> a.d, d |-> ra])

\* math.log(x, 2) where x is a power of two
RECURSIVE Log2(_)
Log2(x) == IF x <= 1 THEN 0 ELSE 1 + Log2(x \div 2)

MICROSEC_PER_SEC == 1000000
pause_history_duration == 1
pause_rsptime_count == 3
pause_rsptime_unmeasured == -11
MaxRsp == 2
MaxSamples == 5
IdleTimes == {0, 1}

\* reset(): the fields of the auto-pause feature
reset_pause(c) ==
    [pause_rsptime_index |-> pause_rsptime_unmeasured,
     pause_rsptime_history |-> [k \in 1..pause_rsptime_count |-> 0],
     pause_sample_count |-> 0,
     pause_history_start_time |-> 0,
     pause_sec |-> Rat(c.pause_between_files, MICROSEC_PER_SEC),
     total_threads |-> c.total_hosts * c.threads,
     throttling_factor |-> Rat(Log2(c.total_hosts * c.threads + 1), 10),
     op_start_time |-> None, exc |-> "none"]

RECURSIVE sum(_)
sum(h) == IF h = <<>> THEN 0 ELSE Head(h) + sum(Tail(h))

\* calculate_pause_time: new_pause, then the smoothed pause_sec
new_pause(s, end_time) ==
    LET mean_rsptime == Rat(sum(s.pause_rsptime_history), pause_rsptime_count)
        time_so_far == end_time - s.pause_history_start_time
        est_throughput ==
            Rat(s.pause_sample_count * s.total_threads, time_so_far)
        mean_utilization == RatMul(mean_rsptime, est_throughput)
    IN  RatMul(RatMul(mean_utilization, mean_rsptime), s.throttling_factor)

\* (a variant that takes the new estimate as it is)
calculate_pause_time_unsmoothed(s, end_time) ==
    [s EXCEPT !.pause_sec = new_pause(s, end_time)]

calculate_pause_time(s, end_time) ==
    LET old_pause == s.pause_sec
        twice == RatMul([n |-> 2, d |-> 1], new_pause(s, end_time))
    IN  [s EXCEPT !.pause_sec =
                      RatDiv(RatAdd(old_pause, twice), [n |-> 3, d |-> 1])]

\* calculate_pause_time divides by time_so_far
ZeroDivisionError(s, end_time) == end_time - s.pause_history_start_time = 0

\* the window is over: its duration has passed or more than half of the
\* ring buffer has been filled since it began
time_to_adjust(s, end_time) ==
    \/ s.pause_history_start_time + pause_history_duration < end_time
    \/ 2 * s.pause_sample_count > pause_rsptime_count

\* (a variant that seeds the first slot only)
adjust_pause_time_first_slot(s, end_time, rsp_time) ==
    IF s.pause_rsptime_index = pause_rsptime_unmeasured
    THEN [s EXCEPT !.pause_history_start_time = end_time - rsp_time,
                   !.pause_rsptime_history[1] = rsp_time,
                   !.pause_rsptime_index = 1,
                   !.pause_sample_count = 1,
                   !.pause_sec =
                       RatMul(s.throttling_factor, [n |-> rsp_time, d |-> 1])]
    ELSE s

adjust_pause_time(s, end_time, rsp_time) ==
    IF s.pause_rsptime_index = pause_rsptime_unmeasured
    THEN [s EXCEPT !.pause_history_start_time = end_time - rsp_time,
                   !.pause_rsptime_history =
                       [k \in 1..pause_rsptime_count |-> rsp_time],
                   !.pause_rsptime_index = 1,
                   !.pause_sample_count = 1,
                   !.pause_sec =
                       RatMul(s.throttling_factor, [n |-> rsp_time, d |-> 1])]
    ELSE LET index == s.pause_rsptime_index + 1
             s1 == [s EXCEPT
                       !.pause_rsptime_history[s.pause_rsptime_index + 1] =
                           rsp_time,
                       !.pause_rsptime_index =
                           IF index >= pause_rsptime_count THEN 0 ELSE index,
                       !.pause_sample_count = @ + 1]
         IN  IF time_to_adjust(s1, end_time)
             THEN (IF ZeroDivisionError(s1, end_time)
                   THEN [s1 EXCEPT !.exc = "ZeroDivisionError"]
                   ELSE [calculate_pause_time(s1, end_time) EXCEPT
                            !.pause_history_start_time = end_time,
                            !.pause_sample_count = 0])
             ELSE s1

PauseConfigs ==
    [auto_pause : BOOLEAN, pause_between_files : {0, 500000},
     total_hosts : {1, 3}, threads : {1}]

InitPause ==
    /\ cfg \in PauseConfigs
    /\ wk = [w \in Workers |-> 0]
    /\ pc = [w \in Workers |-> "idle"]
    /\ netfs = {}
    /\ ready = {}
    /\ now = 0
    /\ worked = [w \in Workers |-> <<>>]
    /\ swM = [w \in Workers |-> None]
    /\ obs = [w \in Workers |-> None]
    /\ touched = [w \in Workers |-> 0]
    /\ invok = reset_pause(cfg)
    /\ fsys = [files |-> [fn \in {} |-> <<>>], dirs |-> {}, seed |-> <<>>,
              free |-> None]
    /\ tst = [pc |-> "pause", rsptimes |-> <<>>, recalcs |-> <<>>]

\* op_starttime after the worker has paused or not: the clock is read
op_starttime(idle) ==
    /\ tst.pc = "pause"
    /\ invok.op_start_time = None
    /\ Len(tst.rsptimes) < MaxSamples
    /\ now' = now + idle
    /\ invok' = [invok EXCEPT !.op_start_time = now + idle]
    /\ UNCHANGED <<cfg, wk, pc, netfs, ready, worked, swM, obs, touched, fsys,
                   tst>>

\* op_endtime when the operation has taken elapsed ticks; tst.recalcs
\* notes every recalculation of pause_sec
op_endtime(elapsed) ==
    /\ tst.pc = "pause"
    /\ invok.op_start_time # None
    /\ LET end_time == now + elapsed
           rsp_time == end_time - invok.op_start_time
           s == [invok EXCEPT !.op_start_time = None]
           recalc == /\ cfg.auto_pause
                     /\ s.pause_rsptime_index # pause_rsptime_unmeasured
                     /\ time_to_adjust(
                            [s EXCEPT !.pause_sample_count = @ + 1], end_time)
                     /\ ~ZeroDivisionError(s, end_time)
           s1 == [s EXCEPT
                     !.pause_rsptime_history[s.pause_rsptime_index + 1] =
                         rsp_time,
                     !.pause_sample_count = @ + 1]
       IN  /\ now' = end_time
           /\ invok' = IF cfg.auto_pause
                       THEN adjust_pause_time(s, end_time, rsp_time)
                       ELSE s
           /\ tst' = [tst EXCEPT
                         !.pc = IF invok.exc' = "none" THEN @ ELSE "raised",
                         !.rsptimes = Append(@, rsp_time),
                         !.recalcs =
                             IF recalc
                             THEN Append(@,
                                 [old_pause |-> s.pause_sec,
                                  new_pause |-> new_pause(s1, end_time),
                                  pause_sec |-> invok.pause_sec',
                                  samples |-> s1.pause_sample_count,
                                  count_after |-> invok.pause_sample_count',
                                  time_so_far |->
                                      end_time - s.pause_history_start_time])
                             ELSE @]
    /\ UNCHANGED <<cfg, wk, pc, netfs, ready, worked, swM, obs, touched, fsys>>

NextPause ==
    \/ \E idle \in IdleTimes : op_starttime(idle)
    \/ \E elapsed \in 1..MaxRsp : op_endtime(elapsed)
SpecPause == InitPause /\ [][NextPause]_vars

(***************************************************************************)
(* Specification SpecClock: the pacing controller when the clock may       *)
(* return one reading for several operations in succession                 *)
(***************************************************************************)

InitClock ==
    /\ InitPause
    /\ cfg.auto_pause

NextClock ==
    \/ \E idle \in IdleTimes : op_starttime(idle)
    \/ \E elapsed \in 0..1 : op_endtime(elapsed)

SpecClock == InitClock /\ [][NextClock]_vars

\* Specification SpecDemand: create and mkdir runs with dirs_on_demand, by
\* thread "00" or another thread, in a shared directory or not
DemandOps == {"create", "mkdir"}
DemandConfigs ==
    [opname : {"cleanup"}, iterations : 1..MaxIter,
     files_between_checks : {default_files_between_checks},
     total_sz_kb : {1}, record_sz_kb : {0},
     stonewall : {TRUE}, finish_all_rq : {FALSE}, starting_gate : {FALSE},
     files_per_dir : 1..2, dirs_per_dir : {2}, tops : 1..2,
     hash_to_dir : BOOLEAN, dirs_on_demand : {TRUE},
     is_shared_dir : BOOLEAN,
     tid : Tids, incompressible : {FALSE},
     filesize_distr : {"fixed"},
     verify_read : {TRUE}]
InitDemand == InitRuns(DemandConfigs, DemandOps, 2)
NextDemand ==
    \/ \E o \in DemandOps : run_test(o)
    \/ do_file_unit
    \/ handler_end
SpecDemand == InitDemand /\ [][NextDemand]_vars

\* what the test may do to one file of a complete create run before the
\* next run: cut it short (a read run follows) or remove it (a readdir run
\* follows)
truncate ==
    /\ tst.pc = "idle"
    /\ tst.corrupt.idx = 0
    /\ tst.hist # <<>>
    /\ LET last == tst.hist[Len(tst.hist)] IN
         last.op = "create" /\ ~last.raised /\ last.status = ok
    /\ \E fn \in DOMAIN fsys.files :
         /\ fsys.files[fn].kind = "file"
         /\ fn.tree = src_dirs
         /\ fn.ext = ""
         /\ \E p \in 0..(Len(fsys.files[fn].data) - 1) :
              /\ fsys' = [fsys EXCEPT
                            !.files[fn].data = SubSeq(@, 1, p),
                            !.free = IF @ = None THEN @
                                     ELSE @ + Len(fsys.files[fn].data) - p]
              /\ tst' = [tst EXCEPT !.corrupt =
                           [idx |-> fn.idx, pos |-> p,
                            at |-> Len(tst.hist)],
                                      !.ops = {"read"},
                                      !.max_runs = Len(tst.hist) + 1]
    /\ UNCHANGED <<cfg, invok, netfs, now, wk, pc, ready, worked, swM, obs,
                   touched>>

remove ==
    /\ tst.pc = "idle"
    /\ tst.corrupt.idx = 0
    /\ tst.hist # <<>>
    /\ LET last == tst.hist[Len(tst.hist)] IN
         last.op = "create" /\ ~last.raised /\ last.status = ok
    /\ \E fn \in DOMAIN fsys.files :
         /\ fsys.files[fn].kind = "file"
         /\ fn.tree = src_dirs
         /\ fn.ext = ""
         /\ fsys' = unlink(fsys, fn)
         /\ tst' = [tst EXCEPT !.corrupt =
                      [idx |-> fn.idx, pos |-> None, at |-> Len(tst.hist)],
                                 !.ops = {"readdir"},
                                 !.max_runs = Len(tst.hist) + 1]
    /\ UNCHANGED <<cfg, invok, netfs, now, wk, pc, ready, worked, swM, obs,
                   touched>>

\* Specification SpecFull: runs that write, read and list files on a device
\* with little or unlimited room, whose files the test may damage
MaxFree == 9
FullOps == {"create", "append", "overwrite", "read", "readdir"}
FullConfigs ==
    [opname : {"cleanup"}, iterations : 1..MaxIter,
     files_between_checks : {default_files_between_checks},
     total_sz_kb : 1..MaxSzKb, record_sz_kb : 0..1,
     stonewall : {TRUE}, finish_all_rq : {FALSE}, starting_gate : {FALSE},
     files_per_dir : {2}, dirs_per_dir : {2}, tops : {1},
     hash_to_dir : BOOLEAN, dirs_on_demand : {FALSE},
     is_shared_dir : {FALSE},
     tid : {"00"}, incompressible : {FALSE},
     filesize_distr : {"fixed"},
     verify_read : {TRUE}]
InitFull == InitDisk(FullConfigs, FullOps, 2, {None} \cup (1..MaxFree))
NextFull ==
    \/ \E o \in FullOps : run_test(o)
    \/ do_file_unit
    \/ handler_end
    \/ corrupt
    \/ truncate
    \/ remove
SpecFull == InitFull /\ [][NextFull]_vars

\* Specification SpecSize: create and read runs with file and record sizes
\* below, at and above the size of the buffer (Test.test_h1)
SizeOps == {"create", "read"}
SizeConfigs ==
    [opname : {"cleanup"}, iterations : 1..MaxIter,
     files_between_checks : {default_files_between_checks},
     total_sz_kb : 0..((biggest_buf_size \div BYTES_PER_KB) + 2),
     record_sz_kb : 0..((biggest_buf_size \div BYTES_PER_KB) + 1),
     stonewall : {TRUE}, finish_all_rq : {FALSE}, starting_gate : {FALSE},
     files_per_dir : {2}, dirs_per_dir : {2}, tops : {1},
     hash_to_dir : {FALSE}, dirs_on_demand : {FALSE},
     is_shared_dir : {FALSE},
     tid : {"00"}, incompressible : {FALSE},
     filesize_distr : {"fixed"},
     verify_read : {TRUE}]
InitSize == InitRuns(SizeConfigs, SizeOps, 2)
NextSize ==
    \/ \E o \in SizeOps : run_test(o)
    \/ do_file_unit
    \/ handler_end
SpecSize == InitSize /\ [][NextSize]_vars

\* Test.test_c4_Stat: create, stat and cleanup runs
StatOps == {"create", "stat", "cleanup"}
InitStat == InitRuns(TreeConfigs, StatOps, MaxRuns)
NextStat ==
    \/ \E o \in StatOps : run_test(o)
    \/ do_file_unit
    \/ handler_end
SpecStat == InitStat /\ [][NextStat]_vars


\* the tree as a test sees it: the paths that exist
paths(f) == [files |-> DOMAIN f.files, dirs |-> f.dirs]

\* run number k was a create run that wrote all its files
created_all(k) ==
    /\ tst.hist[k].op = "create"
    /\ ~tst.hist[k].raised
    /\ tst.hist[k].status = ok
    /\ tst.hist[k].filenum = cfg.iterations

\* what do_create writes to file number i under the seed text of run r
written(r, i) ==
    LET fn == mk_file_nm(invok, src_dirs, i)
    IN  write_records(Len(r.after.files[fn].data) \div BYTES_PER_KB,
                      get_record_size_to_use, prepare_buf(r.thread_seed, i))


TypeOK ==
    /\ cfg \in Configs
    /\ \A w \in Workers : wk[w].filenum \in 0..MaxIter

(***************************************************************************)
(* Properties of the dispatch loop and of the synchronisation files        *)
(***************************************************************************)
FirstN(n) == [i \in 1..n |-> i]

\* the worker polls the stonewall file and stops on it
Stonewalled(w) == cfg.stonewall /\ cfg.opname # "cleanup"

\* C1: a run without failure, without abort and without a stonewall file seen
\* before the target does its unit of work once for each of 1..N, in
\* increasing order, and returns with filenum = filenum_final = N
C1_ExactlyNFiles ==
    \A w \in Workers :
        (pc[w] = "done" /\ wk[w].status = ok
           /\ (obs[w] = None \/ obs[w] >= cfg.iterations))
        => /\ worked[w] = FirstN(cfg.iterations)
           /\ wk[w].filenum = cfg.iterations
           /\ wk[w].filenum_final = cfg.iterations

C1_Witness ==
    \E w \in Workers :
        /\ pc[w] = "done" /\ wk[w].status = ok /\ obs[w] = None
        /\ cfg.iterations >= 2 /\ worked[w] = FirstN(cfg.iterations)

\* C2: with stonewalling and without finish_all_rq, once the stonewall file
\* exists a worker that had done M files starts fewer than
\* files_between_checks further files, and its filenum_final is below
\* M + files_between_checks
C2_StopsWithinInterval ==
    \A w \in Workers :
        (Stonewalled(w) /\ ~cfg.finish_all_rq /\ swM[w] # None)
        => /\ wk[w].filenum < swM[w] + wk[w].files_between_checks
           /\ wk[w].filenum_final # None
                 => wk[w].filenum_final < swM[w] + wk[w].files_between_checks

\* C3: with finish_all_rq a worker that sees the stonewall file after M < N
\* files records filenum_final = M and goes on to process all N files
C3_FinishesAllRequests ==
    \A w \in Workers :
        (Stonewalled(w) /\ cfg.finish_all_rq /\ obs[w] # None
           /\ obs[w] < cfg.iterations /\ wk[w].status = ok)
        => /\ wk[w].filenum_final = obs[w]
           /\ wk[w].rq_final = obs[w] * records_per_file
           /\ wk[w].exc # "assertion failed!"
           /\ pc[w] = "done" => worked[w] = FirstN(cfg.iterations)

\* C4 as claimed: no worker performs the create of the stonewall file once
\* the file exists
C4_CreatedAtMostOnce ==
    [][\A w \in Workers :
          (pc[w] = "touch" /\ pc'[w] = "ret") => "stonewall" \notin netfs]_vars

\* C4 as amended: a worker performs the create at most once, only at its
\* iteration target and only after its own existence check in end_test found
\* the file absent; the file, once there, stays
C4_CreateGuarded ==
    [][/\ \A w \in Workers :
            /\ (pc[w] # "touch" /\ pc'[w] = "touch")
                  => /\ "stonewall" \notin netfs
                     /\ wk'[w].filenum >= cfg.iterations
                     /\ touched[w] = 0
            /\ touched'[w] # touched[w] => pc[w] = "touch"
       /\ "stonewall" \in netfs => "stonewall" \in netfs']_vars

C4_Witness ==
    /\ "stonewall" \in netfs
    /\ \A w \in Workers : touched[w] = 1

\* C5: with a starting gate the thread-ready file is there before the first
\* poll, and start_time and the first file operation come only after the gate
\* file exists
Running == {"start", "loop", "work", "touch", "ret", "done"}

C5_GateBeforeRunning ==
    cfg.starting_gate =>
        \A w \in Workers :
            /\ pc[w] = "poll" => w \in ready
            /\ (pc[w] \in Running \/ wk[w].start_time # None
                   \/ worked[w] # <<>>)
                 => ("gate" \in netfs /\ w \in ready)

C5_Witness ==
    /\ cfg.starting_gate
    /\ \E w \in Workers : worked[w] # <<>> /\ wk[w].start_time # None

\* C6: a worker that sees the abort file at the barrier raises, does no file
\* operation and ends with a non-zero status
C6_AbortAtGateFails ==
    \A w \in Workers :
        (pc[w] = "raised" /\ wk[w].exc = "saw abort flag")
        => (worked[w] = <<>> /\ wk[w].status # ok)

\* C7: once the abort file exists, the next evaluation of do_another_file
\* starts no further file operation
C7_AbortStopsLoop ==
    [][\A w \in Workers :
          ("abort" \in netfs /\ pc[w] = "loop") => pc'[w] # "work"]_vars

\* C8: a read run that directly follows a complete create run, with no
\* change to the files in between, returns status 0 after reading all N
\* files, and every file holds what create writes under the read run's seed
C8_RoundTrip ==
    \A k \in 1..(Len(tst.hist) - 1) :
        LET r == tst.hist[k + 1] IN
        (created_all(k) /\ r.op = "read" /\ r.corrupt.idx = 0)
            => /\ ~r.raised
               /\ r.status = ok
               /\ r.units = FirstN(cfg.iterations)
               /\ \A i \in 1..cfg.iterations :
                    r.after.files[mk_file_nm(invok, src_dirs, i)].data
                        = written(r, i)

\* C9: when one byte of file i was changed after a complete create run, the
\* read run that follows ends with MFRdWrExc at file i, reports as matched
\* bytes the offset of the changed byte in its record, has read files
\* 1..i-1 only, and has a non-zero status
C9_CorruptionReported ==
    \A k \in 1..(Len(tst.hist) - 1) :
        LET r == tst.hist[k + 1]
            rszbytes == get_record_size_to_use * BYTES_PER_KB IN
        (created_all(k) /\ r.op = "read" /\ r.corrupt.idx # 0)
            => /\ r.exc = "MFRdWrExc"
               /\ r.args.filenum = r.corrupt.idx
               /\ r.args.matched = r.corrupt.pos % rszbytes
               /\ r.filenum = r.corrupt.idx
               /\ r.units = FirstN(r.corrupt.idx - 1)
               /\ r.status # ok

\* C10: of two cleanup runs in succession the second returns status 0
\* without raising and leaves the tree the first one left, which is empty
C10_CleanupIdempotent ==
    \A k \in 1..(Len(tst.hist) - 1) :
        LET first == tst.hist[k]
            second == tst.hist[k + 1] IN
        (first.op = "cleanup" /\ second.op = "cleanup")
            => /\ ~second.raised
               /\ second.status = ok
               /\ paths(second.after) = paths(first.after)
               /\ paths(second.after) = [files |-> {}, dirs |-> {}]

\* run number k returned status 0 after a unit of work on each of 1..N
completed(k) ==
    /\ ~tst.hist[k].raised
    /\ tst.hist[k].status = ok
    /\ tst.hist[k].units = FirstN(cfg.iterations)

\* C11: of the runs create, stat, cleanup on a fresh tree, create leaves the
\* file of every index 1..N in place, stat returns status 0 after all N
\* files, and after cleanup no file and no subdirectory is left
C11_CreateStatCleanup ==
    /\ (Len(tst.hist) >= 1 /\ tst.hist[1].op = "create")
        => /\ completed(1)
           /\ \A i \in 1..cfg.iterations :
                file_exists(tst.hist[1].after, mk_file_nm(invok, src_dirs, i))
    /\ (Len(tst.hist) >= 2 /\ tst.hist[1].op = "create"
            /\ tst.hist[2].op = "stat")
        => completed(2)
    /\ (Len(tst.hist) >= 3 /\ tst.hist[1].op = "create"
            /\ tst.hist[2].op = "stat" /\ tst.hist[3].op = "cleanup")
        => /\ completed(3)
           /\ paths(tst.hist[3].after) = [files |-> {}, dirs |-> {}]

\* C12: whatever the file number, the request count, the random state and
\* the runs made so far, the directory that a run uses for an index is
\* mk_dir_name(index) of the configuration: in the list the current run
\* looks up, in the list of every earlier run, and for every file in the
\* tree; and in sequential mode two indices with the same index div
\* files_per_dir have the same directory
C12_DirDependsOnIndexOnly ==
    /\ \A j \in 1..Len(invok.file_dirs) : invok.file_dirs[j] = mk_dir_name(j - 1)
    /\ \A k \in 1..Len(tst.hist) :
         /\ Len(tst.hist[k].file_dirs) = file_dirs_len
         /\ tst.hist[k].file_dirs = tst.hist[1].file_dirs
    /\ \A fn \in DOMAIN fsys.files : fn.segs = mk_dir_name(fn.idx)
    /\ ~cfg.hash_to_dir =>
         \A i, j \in 1..Len(invok.file_dirs) :
            ((i - 1) \div cfg.files_per_dir = (j - 1) \div cfg.files_per_dir)
                => invok.file_dirs[i] = invok.file_dirs[j]

\* files are in the tree after runs of two different operations, in more
\* than one directory
C12_Witness ==
    /\ Len(tst.hist) >= 2
    /\ tst.hist[1].op = "create" /\ completed(1)
    /\ tst.hist[2].op = "rename" /\ completed(2)
    /\ \E fn, gn \in DOMAIN fsys.files : fn.segs # gn.segs

\* the digits of n in base D, most significant first
RECURSIVE Digits(_, _)
Digits(n, D) == IF n < D THEN <<n>> ELSE Digits(n \div D, D) \o <<n % D>>

\* "d_" and the three decimal digits of q < 1000
Pad3(q) ==
    <<DecimalDigits[((q \div 100) % 10) + 1],
      DecimalDigits[((q \div 10) % 10) + 1], DecimalDigits[(q % 10) + 1]>>
RECURSIVE SeqPath(_)
SeqPath(digits) ==
    IF Len(digits) = 1 THEN <<"d", "_">> \o Pad3(digits[1])
    ELSE <<"d", "_">> \o Pad3(digits[1]) \o <<"/">> \o SeqPath(Tail(digits))

\* C13: in sequential mode mk_seq_dir_name(index) is one segment "d_" + 3
\* decimal digits per base-D digit of n = index div files_per_dir, most
\* significant first without a leading zero digit, and d_000 alone for
\* n = 0; 29 * 20 with 20 files and D = 3 gives d_001/d_000/d_000/d_002 and
\* 320 * 20 with D = 7 gives d_006/d_003/d_005
C13_SeqDirIsBaseD ==
    (tst.pc = "names" /\ tst.call = "mk_dir_name" /\ ~cfg.hash_to_dir) =>
        LET n == tst.index \div cfg.files_per_dir
            digits == Digits(n, cfg.dirs_per_dir) IN
        /\ tst.name = SeqPath(digits)
        /\ Len(tst.pathlist) = Len(digits)
        /\ (n # 0 => tst.pathlist[1][2] # 0)
        /\ (n = 0 => tst.name = <<"d", "_", "0", "0", "0">>)
        /\ (cfg.files_per_dir = 20 /\ cfg.dirs_per_dir = 3
                /\ tst.index = 29 * 20)
            => tst.name = <<"d", "_", "0", "0", "1", "/",
                           "d", "_", "0", "0", "0", "/",
                           "d", "_", "0", "0", "0", "/",
                           "d", "_", "0", "0", "2">>
        /\ (cfg.files_per_dir = 20 /\ cfg.dirs_per_dir = 7
                /\ tst.index = 320 * 20)
            => tst.name = <<"d", "_", "0", "0", "6", "/",
                           "d", "_", "0", "0", "3", "/",
                           "d", "_", "0", "0", "5">>

\* a name of three levels has been made, and the first example of the test
C13_Witness ==
    /\ tst.pc = "names"
    /\ tst.call = "mk_dir_name"
    /\ ~cfg.hash_to_dir
    /\ \/ Len(tst.pathlist) = 3 /\ cfg.dirs_per_dir = 2
       \/ cfg.dirs_per_dir = 3 /\ tst.index = 29 * 20

\* the reference computation of the hashed path from d = h div files_per_dir
RECURSIVE HashedPath(_, _)
HashedPath(d, D) ==
    IF d <= 1 THEN <<>>
    ELSE LET seg == <<"h", "_">> \o Pad3((d * 900593) % D)
             outer == HashedPath(d \div D, D)
         IN  IF outer = <<>> THEN seg ELSE outer \o <<"/">> \o seg

\* C14: in hashed mode mk_hashed_dir_name(index) is the path of the
\* reference computation: h = (index * 900593) mod iterations,
\* d = h div files_per_dir, one segment "h_" + 3 digits of (d * 900593) mod D
\* prepended while d > 1 with d divided by D each time, the empty path when
\* d <= 1; index 499 of 500 files, 5 per directory, D = 4 gives
\* h_001/h_000/h_001
C14_HashedDirIsReference ==
    (tst.pc = "names" /\ tst.call = "mk_dir_name" /\ cfg.hash_to_dir) =>
        LET h == (tst.index * 900593) % cfg.iterations
            d == h \div cfg.files_per_dir IN
        /\ tst.name = HashedPath(d, cfg.dirs_per_dir)
        /\ (d <= 1 => tst.name = <<>> /\ tst.pathlist = <<>>)
        /\ (cfg.files_per_dir = 5 /\ cfg.dirs_per_dir = 4
                /\ cfg.iterations = 500 /\ tst.index = 499)
            => tst.name = <<"h", "_", "0", "0", "1", "/",
                           "h", "_", "0", "0", "0", "/",
                           "h", "_", "0", "0", "1">>

\* a hashed path of three levels has been made under the example's settings
C14_Witness ==
    /\ tst.pc = "names"
    /\ tst.call = "mk_dir_name"
    /\ cfg.hash_to_dir
    /\ cfg.iterations = 500
    /\ tst.index = 499
    /\ Len(tst.pathlist) = 3

\* the directory path of file number i, by the reference computations
RefDir(i) ==
    IF cfg.hash_to_dir
    THEN HashedPath(((i * 900593) % cfg.iterations) \div cfg.files_per_dir,
                    cfg.dirs_per_dir)
    ELSE SeqPath(Digits(i \div cfg.files_per_dir, cfg.dirs_per_dir))

\* C15: mk_file_nm(base_dirs, i) is base_dirs[i mod K] / the directory path
\* of i / prefix_host_tid_i_suffix, the K top-level directories taken round
\* robin, and no other file number of the run yields the same path
C15_FileNameLayout ==
    (tst.pc = "names" /\ tst.call = "mk_file_nm" /\ ~tst.raised) =>
        /\ tst.name =
               <<"/", "t">> \o str(tst.index % cfg.tops)
               \o <<"/", "file_srcdir", "/">> \o RefDir(tst.index) \o <<"/">>
               \o cfg.prefix \o <<"_">> \o cfg.onhost \o <<"_">> \o cfg.tid
               \o <<"_">> \o str(tst.index) \o <<"_">> \o cfg.suffix
        /\ \A j \in 0..(Len(invok.file_dirs) - 1) :
               j # tst.index
                   => path_text(mk_file_nm(invok, src_dirs, j)) # tst.name

\* a file of the second top-level directory is named, in a directory that
\* another file number shares
C15_Witness ==
    /\ tst.pc = "names"
    /\ tst.call = "mk_file_nm"
    /\ ~tst.raised
    /\ cfg.tops = 2
    /\ tst.index % 2 = 1
    /\ \E j \in 0..(Len(invok.file_dirs) - 1) :
           j # tst.index /\ invok.file_dirs[j + 1] = tst.pathlist
                         /\ j % 2 = 1

\* C16: with auto_pause, after the first sample r0 ending at time t every
\* slot of the ring buffer holds r0, pause_sec = throttling_factor * r0 with
\* throttling_factor = 0.1 * log2(total_hosts * threads + 1), and the window
\* starts at t - r0; without auto_pause pause_sec stays at its configured
\* value pause_between_files / MICROSEC_PER_SEC
C16_FirstSampleSeeds ==
    tst.pc = "pause" =>
        /\ (cfg.auto_pause /\ Len(tst.rsptimes) = 1
                /\ invok.op_start_time = None) =>
               LET r0 == tst.rsptimes[1] IN
               /\ \A k \in 1..pause_rsptime_count :
                      invok.pause_rsptime_history[k] = r0
               /\ invok.pause_sec.n * 10
                      = invok.pause_sec.d * r0 * Log2(cfg.total_hosts
                                                      * cfg.threads + 1)
               /\ Pow2(Log2(cfg.total_hosts * cfg.threads + 1))
                      = cfg.total_hosts * cfg.threads + 1
               /\ invok.throttling_factor.n * 10
                      = invok.throttling_factor.d
                        * Log2(cfg.total_hosts * cfg.threads + 1)
               /\ invok.pause_history_start_time = now - r0
        /\ ~cfg.auto_pause =>
               invok.pause_sec.n * 1000000
                   = invok.pause_sec.d * cfg.pause_between_files

\* the first sample has been taken with auto_pause, after an idle tick and
\* with a configured pause that it replaces
C16_Witness ==
    /\ tst.pc = "pause"
    /\ cfg.auto_pause
    /\ cfg.pause_between_files > 0
    /\ cfg.total_hosts = 3
    /\ Len(tst.rsptimes) = 1
    /\ invok.op_start_time = None
    /\ tst.rsptimes[1] = 2
    /\ now = 3

\* x lies between a and b, either way round
RatBetween(a, x, b) ==
    \/ RatLe(a, x) /\ RatLe(x, b)
    \/ RatLe(b, x) /\ RatLe(x, a)

\* pause_sec after the first sample and after each recalculation
PauseValues ==
    IF tst.recalcs = <<>> THEN <<>>
    ELSE <<tst.recalcs[1].old_pause>>
         \o [k \in 1..Len(tst.recalcs) |-> tst.recalcs[k].pause_sec]

Smoothed(r) ==
    /\ RatMul([n |-> 3, d |-> 1], r.pause_sec)
           = RatAdd(r.old_pause, RatMul([n |-> 2, d |-> 1], r.new_pause))
    /\ RatBetween(r.old_pause, r.pause_sec, r.new_pause)

\* C17 as stated: every recalculation sets pause_sec to
\* (old_pause + 2 * new_pause) / 3, between old_pause and new_pause, and
\* when the response time and the number of samples per window are constant
\* the successive values of pause_sec are monotone
C17_MonotoneNoOvershoot ==
    (tst.pc = "pause" /\ cfg.auto_pause) =>
        /\ \A k \in 1..Len(tst.recalcs) : Smoothed(tst.recalcs[k])
        /\ ( /\ \A i, j \in 1..Len(tst.rsptimes) :
                    tst.rsptimes[i] = tst.rsptimes[j]
             /\ \A i, j \in 1..Len(tst.recalcs) :
                    tst.recalcs[i].samples = tst.recalcs[j].samples )
           => \/ \A k \in 1..(Len(PauseValues) - 1) :
                     RatLe(PauseValues[k], PauseValues[k + 1])
              \/ \A k \in 1..(Len(PauseValues) - 1) :
                     RatLe(PauseValues[k + 1], PauseValues[k])

\* C17 (amended): every recalculation sets pause_sec to
\* (old_pause + 2 * new_pause) / 3, between old_pause and new_pause; two
\* successive recalculations that arrive at the same new_pause move
\* pause_sec in one direction, toward new_pause and not past it
C17_SmoothedTowardEstimate ==
    (tst.pc = "pause" /\ cfg.auto_pause) =>
        /\ \A k \in 1..Len(tst.recalcs) : Smoothed(tst.recalcs[k])
        /\ \A k \in 1..(Len(tst.recalcs) - 1) :
               LET a == tst.recalcs[k]
                   b == tst.recalcs[k + 1] IN
               a.new_pause = b.new_pause =>
                   /\ b.old_pause = a.pause_sec
                   /\ RatBetween(a.old_pause, a.pause_sec, b.pause_sec)
                   /\ RatBetween(a.pause_sec, b.pause_sec, a.new_pause)

\* two successive recalculations with one estimate have each moved pause_sec
C17_Witness ==
    /\ tst.pc = "pause"
    /\ cfg.auto_pause
    /\ Len(tst.recalcs) >= 2
    /\ tst.recalcs[1].new_pause = tst.recalcs[2].new_pause
    /\ tst.recalcs[1].old_pause # tst.recalcs[1].pause_sec
    /\ tst.recalcs[1].pause_sec # tst.recalcs[2].pause_sec

\* C18: in a create or mkdir run with dirs_on_demand every pass of the loop
\* either does file number filenum + 1 and keeps it, or finds its directory
\* missing, makes the directory and leaves filenum where it was, so that the
\* next pass does the same file number; filenum stays within 0..iterations,
\* and a run that ends with status ok at the iteration count has done the
\* file numbers 1..iterations once each, in order, and every one is there
C18_RetrySameIndex ==
    [][(tst.pc = "running" /\ cfg.opname \in DemandOps /\ cfg.dirs_on_demand)
        => /\ invok'.filenum \in 0..cfg.iterations
           /\ \/ /\ tst'.pc = "running"
                 /\ invok'.filenum = invok.filenum + 1
                 /\ tst'.units = Append(tst.units, invok'.filenum)
              \/ /\ tst'.pc = "running"
                 /\ invok'.filenum = invok.filenum
                 /\ tst'.units = tst.units
                 /\ LET d == dirname(mk_file_nm(invok, src_dirs,
                                                invok.filenum + 1))
                    IN  ~dir_exists(fsys, d) /\ dir_exists(fsys', d)
              \/ /\ tst'.pc = "idle"
                 /\ LET h == tst'.hist[Len(tst'.hist)] IN
                    (~h.raised /\ h.status = ok
                        /\ h.filenum = cfg.iterations)
                      => /\ h.units = FirstN(cfg.iterations)
                         /\ \A i \in 1..cfg.iterations :
                              \E fn \in DOMAIN h.after.files :
                                  /\ fn.idx = i
                                  /\ fn.tree = src_dirs
                                  /\ fn.ext = IF h.op = "mkdir" THEN ".d"
                                              ELSE ""]_vars

\* a create run of three files has ended well in directories that were not
\* there when it began and that make_all_subdirs left to another thread
C18_Witness ==
    /\ tst.pc = "idle"
    /\ cfg.dirs_on_demand
    /\ not_my_subdirs
    /\ Len(tst.hist) >= 1
    /\ tst.hist[1].op = "create"
    /\ completed(1)
    /\ cfg.iterations = 3
    /\ tst.hist[1].before.dirs = {}
    /\ Cardinality(tst.hist[1].after.dirs) >= 2

\* the bytes that run h added to file fn
Growth(h, fn) ==
    Len(h.after.files[fn].data)
    - (IF fn \in DOMAIN h.before.files THEN Len(h.before.files[fn].data)
       ELSE 0)

\* a record of run h went to file fn in part only
ShortWrite(h, fn) ==
    /\ h.op \in {"create", "append", "overwrite"}
    /\ fn \in DOMAIN h.after.files
    /\ Growth(h, fn) % (get_record_size_to_use * BYTES_PER_KB) # 0

\* run h has left alone every file numbered above i
UntouchedAbove(h, i) ==
    /\ \A fn \in DOMAIN h.after.files :
           fn.idx > i => /\ fn \in DOMAIN h.before.files
                         /\ h.after.files[fn] = h.before.files[fn]
    /\ \A fn \in DOMAIN h.before.files :
           fn.idx > i => fn \in DOMAIN h.after.files

\* run h stopped at file number i with a failed transfer
FatalAt(h, i) ==
    /\ h.exc = "MFRdWrExc"
    /\ ~h.raised
    /\ h.status = EIO
    /\ h.filenum = i
    /\ h.args.filenum = i
    /\ h.units = FirstN(i - 1)
    /\ UntouchedAbove(h, i)

\* C19: a short write in create, append or overwrite, a short read or a
\* difference in content in read, and a missing entry in readdir at file
\* number i end the run: do_workload returns EIO and no file numbered above
\* i has been worked on
C19_IntegrityFailureFatal ==
    tst.pc = "idle" =>
        \A k \in 1..Len(tst.hist) :
            LET h == tst.hist[k] IN
            /\ h.exc = "MFRdWrExc" => FatalAt(h, h.filenum)
            /\ \A fn \in DOMAIN h.after.files :
                   ShortWrite(h, fn) => FatalAt(h, fn.idx)
            /\ (tst.corrupt.idx > 0 /\ tst.corrupt.at = k - 1 /\ ~h.raised)
                   => FatalAt(h, tst.corrupt.idx)

\* a create run of three files has got one byte of the second one's record
\* onto the device
C19_Witness ==
    /\ tst.pc = "idle"
    /\ Len(tst.hist) = 1
    /\ cfg.iterations = 3
    /\ tst.hist[1].op = "create"
    /\ tst.hist[1].exc = "MFRdWrExc"
    /\ tst.hist[1].filenum = 2
    /\ tst.hist[1].args.bytes = 1
    /\ \E fn \in DOMAIN fsys.files : fn.idx = 2 /\ Len(fsys.files[fn].data) = 1

\* the record size of the claim: record_sz_kb, or the file size when that
\* is 0, and no more than the buffer holds
RecordKb ==
    LET r == IF cfg.record_sz_kb # 0 THEN cfg.record_sz_kb
             ELSE cfg.total_sz_kb
        buffer_kb == biggest_buf_size \div BYTES_PER_KB
    IN  IF r > buffer_kb THEN buffer_kb ELSE r

\* ceil(S / R), and no request for an empty file
RequestsPerFile ==
    IF cfg.total_sz_kb = 0 THEN 0
    ELSE (cfg.total_sz_kb + RecordKb - 1) \div RecordKb

\* C20: with a fixed file size of S KB and records of R KB (record_sz_kb, or
\* S when that is 0, at most the buffer size), a create or read run issues
\* ceil(S / R) requests for each file: rq is that times the files done so
\* far, iterations * ceil(S / R) at the end of a complete run, and each file
\* of a complete run holds S KB
C20_RequestsPerFile ==
    /\ (tst.pc = "running" /\ cfg.opname \in SizeOps)
           => invok.rq = Len(tst.units) * RequestsPerFile
    /\ tst.pc = "idle" =>
           \A k \in 1..Len(tst.hist) :
               (tst.hist[k].op \in SizeOps /\ completed(k)) =>
                   /\ tst.hist[k].rq = cfg.iterations * RequestsPerFile
                   /\ \A i \in 1..cfg.iterations :
                          \E fn \in DOMAIN tst.hist[k].after.files :
                              /\ fn.idx = i
                              /\ fn.tree = src_dirs
                              /\ fn.ext = ""
                              /\ Len(tst.hist[k].after.files[fn].data)
                                     = cfg.total_sz_kb * BYTES_PER_KB

\* a create and a read run of two files or more, each file larger than the
\* buffer and read in two requests
C20_Witness ==
    /\ tst.pc = "idle"
    /\ Len(tst.hist) = 2
    /\ tst.hist[1].op = "create"
    /\ tst.hist[2].op = "read"
    /\ completed(1)
    /\ completed(2)
    /\ cfg.iterations >= 2
    /\ cfg.record_sz_kb = 0
    /\ cfg.total_sz_kb * BYTES_PER_KB > biggest_buf_size
    /\ tst.hist[2].rq = 2 * cfg.iterations

(***************************************************************************)
(* Claims about the end of a run (Spec)                                    *)
(***************************************************************************)

\* C21: once a call of end_test has set end_time, no later call of end_test
\* in the same run raises or changes end_time, elapsed_time, filenum_final
\* or rq_final, whatever the two clock readings are (equal ones included)
C21_EndTestIdempotent ==
    [][\A w \in Workers :
          wk[w].end_time # None =>
              /\ wk'[w].exc # "assertion failed!"
              /\ wk'[w].end_time = wk[w].end_time
              /\ wk'[w].elapsed_time = wk[w].elapsed_time
              /\ wk'[w].filenum_final = wk[w].filenum_final
              /\ wk'[w].rq_final = wk[w].rq_final]_vars

\* error codes a unit of work may have recorded
StatusCodes == {ENOENT, EIO, EACCES, EEXIST, ENOSPC}

\* C22: a worker creates the stonewall file only when its file number has
\* reached the iteration target at the moment it ends: never when it ends
\* because it saw the stonewall file before its target, and never when
\* do_another_file finds a non-zero status before the target
C22_OnlyAtTarget ==
    /\ \A w \in Workers :
           (pc[w] = "touch" \/ touched[w] > 0) =>
               /\ wk[w].filenum >= cfg.iterations
               /\ wk[w].filenum_final = wk[w].filenum
    /\ \A w \in Workers : \A e \in StatusCodes : \A t \in now..MaxTime :
           (pc[w] = "loop" /\ wk[w].filenum < cfg.iterations) =>
               do_another_file([wk[w] EXCEPT !.status = e], t,
                               "stonewall" \in netfs).ret
                   \in {"false", "raise"}

\* a worker has ended before its target because it saw the stonewall file,
\* and has not created it
C22_Witness ==
    \E w \in Workers :
        /\ pc[w] = "done"
        /\ obs[w] # None
        /\ wk[w].exc = "none"
        /\ wk[w].status = ok
        /\ wk[w].filenum_final < cfg.iterations
        /\ "stonewall" \in netfs
        /\ touched[w] = 0

(***************************************************************************)
(* Specification SpecGate: the workers at the starting gate, with the      *)
(* delay between two polls (wait_for_gate's local delay_time, in seconds)  *)
(***************************************************************************)

\* polls of the gate that the model counts
MaxPolls == 9

\* delay_time = 0.1 before the polling loop
first_delay == [n |-> 1, d |-> 10]
\* the longest sleep between two polls
longest_delay == [n |-> 2, d |-> 1]

\* (a variant with a later cap)
next_delay_capped_late(delay_time) ==
    LET longer == RatMul(delay_time, [n |-> 3, d |-> 2])
    IN  IF ~RatLe(longer, [n |-> 3, d |-> 1]) THEN [n |-> 3, d |-> 1]
        ELSE longer

\* delay_time = delay_time * 1.5; if delay_time > 2.0: delay_time = 2.0
next_delay(delay_time) ==
    LET longer == RatMul(delay_time, [n |-> 3, d |-> 2])
    IN  IF ~RatLe(longer, longest_delay) THEN longest_delay ELSE longer

InitGate ==
    /\ cfg \in {c \in Configs : /\ c.opname = "create" /\ ~c.stonewall
                                /\ c.iterations = 1 /\ c.total_sz_kb = 0
                                /\ c.files_between_checks = 1}
    /\ wk = [w \in Workers |-> reset(cfg)]
    /\ pc = [w \in Workers |-> "idle"]
    /\ netfs = {}
    /\ ready = {}
    /\ now = 0
    /\ worked = [w \in Workers |-> <<>>]
    /\ swM = [w \in Workers |-> None]
    /\ obs = [w \in Workers |-> None]
    /\ touched = [w \in Workers |-> 0]
    /\ invok = reset(cfg)
    /\ fsys = [files |-> [fn \in {} |-> <<>>], dirs |-> {}, seed |-> <<>>,
              free |-> None]
    /\ tst = [pc |-> "gate",
              delay_time |-> [w \in Workers |-> first_delay],
              polls |-> [w \in Workers |-> 0],
              slept |-> [w \in Workers |-> [n |-> 0, d |-> 1]]]

\* wait_for_gate up to its loop: touch the thread-ready file, delay_time = 0.1
wait_for_gate_begin(w) ==
    /\ pc[w] = "gate"
    /\ IF cfg.starting_gate
       THEN /\ ready' = ready \cup {w}
            /\ pc' = [pc EXCEPT ![w] = "poll"]
       ELSE /\ ready' = ready
            /\ pc' = [pc EXCEPT ![w] = "start"]
    /\ tst' = [tst EXCEPT !.delay_time[w] = first_delay]
    /\ UNCHANGED <<cfg, wk, netfs, now, worked, swM, obs, touched, invok,
                   fsys>>

\* wait_for_gate: one evaluation of the loop condition and, when the gate is
\* not there, of the loop body: the abort check, the longer delay, the sleep
wait_for_gate_loop(w) ==
    /\ pc[w] = "poll"
    /\ IF gate_exists(netfs)
       THEN /\ pc' = [pc EXCEPT ![w] = "start"]
            /\ wk' = wk
            /\ tst' = tst
       ELSE IF "abort" \in netfs
       THEN /\ pc' = [pc EXCEPT ![w] = "raised"]
            /\ wk' = [wk EXCEPT ![w].exc = "saw abort flag"]
            /\ tst' = tst
       ELSE /\ pc' = pc
            /\ wk' = wk
            /\ tst' = [tst EXCEPT
                         !.delay_time[w] = next_delay(@),
                         !.slept[w] = next_delay(tst.delay_time[w]),
                         !.polls[w] = Min(@ + 1, MaxPolls)]
    /\ UNCHANGED <<cfg, netfs, ready, now, worked, swM, obs, touched, invok,
                   fsys>>

NextGate ==
    \/ \E w \in Workers : do_workload_begin(w)
    \/ \E w \in Workers : wait_for_gate_begin(w)
    \/ \E w \in Workers : wait_for_gate_loop(w)
    \/ \E w \in Workers : start_test(w)
    \/ open_gate
    \/ abort_test

\* every worker thread keeps running: its sleeps end
SpecGate ==
    /\ InitGate
    /\ [][NextGate]_vars
    /\ \A w \in Workers :
           /\ WF_vars(do_workload_begin(w))
           /\ WF_vars(wait_for_gate_begin(w))
           /\ WF_vars(wait_for_gate_loop(w))
           /\ WF_vars(start_test(w))

RECURSIVE Pow(_, _)
Pow(b, k) == IF k = 0 THEN 1 ELSE b * Pow(b, k - 1)

\* 0.1 * 1.5^k seconds, and 2 seconds when that is more
SleepOfPoll(k) ==
    LET x == Rat(Pow(3, k), 10 * Pow(2, k))
    IN  IF RatLe(x, [n |-> 2, d |-> 1]) THEN x ELSE [n |-> 2, d |-> 1]

InitEnd ==
    /\ Init
    /\ cfg.stonewall
    /\ ~cfg.finish_all_rq

\* the steps of worker w's thread
thread_step(w) ==
    \/ do_workload_begin(w)
    \/ wait_for_gate_enter(w)
    \/ wait_for_gate_poll(w)
    \/ start_test(w)
    \/ another_file(w)
    \/ touch_stonewall(w)
    \/ do_file(w)
    \/ do_workload_return(w)

NextEnd ==
    \/ \E w \in Workers : thread_step(w)
    \/ open_gate

SpecEnd ==
    /\ InitEnd
    /\ [][NextEnd]_vars
    /\ \A w \in Workers : WF_vars(thread_step(w))

\* worker w has recorded the end of its test and its thread has stopped
ended(w) == pc[w] \in {"done", "raised"} /\ wk[w].filenum_final # None

\* C24: with stonewalling and without finish_all_rq, when no system call
\* fails and nobody aborts, after the gate has opened every worker ends, the
\* stonewall file exists, some worker has ended with filenum_final = N and
\* every worker with filenum_final <= N
C24_AllEndAtStonewall ==
    (cfg.starting_gate => <>("gate" \in netfs)) =>
        <>[](/\ \A w \in Workers : ended(w)
             /\ "stonewall" \in netfs
             /\ \E w \in Workers : wk[w].filenum_final = cfg.iterations
             /\ \A w \in Workers : wk[w].filenum_final <= cfg.iterations)

\* the run is over: one worker has reached the target and written the
\* stonewall file, the other has seen it and ended before the target
C24_Witness ==
    /\ cfg.stonewall /\ ~cfg.finish_all_rq
    /\ \A w \in Workers : pc[w] = "done"
    /\ "stonewall" \in netfs
    /\ \E w \in Workers : wk[w].filenum_final = cfg.iterations
                          /\ touched[w] = 1
    /\ \E w \in Workers : wk[w].filenum_final < cfg.iterations
                          /\ obs[w] # None

\* the file numbers 1..n in order
UpTo(n) == [k \in 1..n |-> k]

\* C25: with stonewalling and without finish_all_rq in the configuration a
\* cleanup run works on the file numbers 1..N in order and on no other,
\* whether or not the stonewall file exists before or during the run, and
\* when do_cleanup has returned the two flags are as configured
C25_CleanupAlwaysFinishes ==
    (cfg.opname = "cleanup" /\ cfg.stonewall /\ ~cfg.finish_all_rq) =>
        \A w \in Workers :
            /\ pc[w] \in {"loop", "work", "touch", "ret"} =>
                   /\ worked[w] = UpTo(Len(worked[w]))
                   /\ Len(worked[w]) <= cfg.iterations
                   /\ wk[w].exc = "none"
            /\ pc[w] \in {"touch", "ret", "done"} =>
                   worked[w] = UpTo(cfg.iterations)
            /\ pc[w] = "done" =>
                   /\ wk[w].stonewall = cfg.stonewall
                   /\ wk[w].finish_all_rq = cfg.finish_all_rq

\* a cleanup run has returned after all its files although the stonewall
\* file was there when it still had files to do
C25_Witness ==
    \E w \in Workers :
        /\ cfg.opname = "cleanup" /\ cfg.stonewall /\ ~cfg.finish_all_rq
        /\ pc[w] = "done"
        /\ swM[w] # None
        /\ swM[w] < cfg.iterations
        /\ cfg.iterations >= 2
        /\ worked[w] = UpTo(cfg.iterations)

(***************************************************************************)
(* Specification SpecSleep: the pause of do_another_file between files     *)
(***************************************************************************)

\* self.files_between_pause
files_between_pause == 5

\* largest number of files of a run
MaxFiles == 11

\* do_another_file: the condition of its time.sleep, and the time slept
pause_due(s) ==
    s.pause_sec.n > 0 /\ cfg.iterations % files_between_pause = 0
sleep_time(s) == RatMul(s.pause_sec, [n |-> files_between_pause, d |-> 1])

SleepConfigs ==
    [iterations : 1..MaxFiles, pause_between_files : {0, 1000, 500000},
     auto_pause : {FALSE}, total_hosts : {1}, threads : {1},
     stonewall : {FALSE}, finish_all_rq : {FALSE},
     files_between_checks : {default_files_between_checks}]

InitSleep ==
    /\ cfg \in SleepConfigs
    /\ wk = [w \in Workers |-> 0]
    /\ pc = [w \in Workers |-> "idle"]
    /\ netfs = {}
    /\ ready = {}
    /\ now = 0
    /\ worked = [w \in Workers |-> <<>>]
    /\ swM = [w \in Workers |-> None]
    /\ obs = [w \in Workers |-> None]
    /\ touched = [w \in Workers |-> 0]
    /\ invok = [reset(cfg) @@ reset_pause(cfg) EXCEPT !.start_time = 0]
    /\ fsys = [files |-> [fn \in {} |-> <<>>], dirs |-> {}, seed |-> <<>>,
              free |-> None]
    /\ tst = [pc |-> "sleep", sleeps |-> <<>>]

\* do_another_file has returned r: True after the sleep, if any, or False
file_paced(r) ==
    /\ invok' = r.s
    /\ now' = now + 1
    /\ tst' = IF r.ret = "true"
              THEN [tst EXCEPT !.sleeps =
                      Append(@, IF pause_due(r.s) THEN sleep_time(r.s)
                                ELSE [n |-> 0, d |-> 1])]
              ELSE [tst EXCEPT !.pc = "over"]

\* one pass of a handler's loop: do_another_file and, when it returns True,
\* the unit of work, which takes no part in the pause
another_file_paced ==
    /\ tst.pc = "sleep"
    /\ file_paced(do_another_file(invok, now + 1, "stonewall" \in netfs))
    /\ UNCHANGED <<cfg, wk, pc, netfs, ready, worked, swM, obs, touched,
                   fsys>>

NextSleep == another_file_paced

SpecSleep == InitSleep /\ [][NextSleep]_vars

\* the files among i..j before which the worker has slept
SleptIn(i, j) == {k \in i..j : tst.sleeps[k].n # 0}

\* C26: with pause_sec > 0 the worker sleeps before exactly one of any
\* files_between_pause files started in succession, for
\* pause_sec * files_between_pause
C26_SleepOncePerN ==
    (tst.pc \in {"sleep", "over"} /\ invok.pause_sec.n > 0) =>
        /\ \A i \in 1..(Len(tst.sleeps) - files_between_pause + 1) :
               Cardinality(SleptIn(i, i + files_between_pause - 1)) = 1
        /\ \A k \in SleptIn(1, Len(tst.sleeps)) :
               tst.sleeps[k] = sleep_time(invok)

\* C27: for samples with completion times that do not decrease and response
\* times that are not negative, several samples of one completion time
\* included, adjust_pause_time does not raise, the ring cursor is within
\* 0..K-1 after the first sample, and the sample count is 0 after every
\* recalculation
C27_ControllerNeverFails ==
    (tst.pc \in {"pause", "raised"}) =>
        /\ invok.exc = "none"
        /\ tst.rsptimes # <<>> =>
               invok.pause_rsptime_index \in 0..(pause_rsptime_count - 1)
        /\ \A k \in 1..Len(tst.recalcs) : tst.recalcs[k].count_after = 0

(***************************************************************************)
(* Claims about directory placement, loop by loop (SpecPlace)              *)
(***************************************************************************)

\* Specification SpecPlace: one call of mk_dir_name at a time, one action per
\* iteration of its loops.  A list holds at most MaxListLen elements; the
\* append or insert that would exceed it raises MemoryError.
MaxListLen == 8

PlaceConfigs ==
    [files_per_dir : 1..MaxFpd, dirs_per_dir : 1..MaxDpd,
     iterations : (1..MaxIter) \cup {40}, hash_to_dir : BOOLEAN]

InitPlace ==
    /\ cfg \in PlaceConfigs
    /\ wk = [w \in Workers |-> 0]
    /\ pc = [w \in Workers |-> "idle"]
    /\ netfs = {}
    /\ ready = {}
    /\ now = 0
    /\ worked = [w \in Workers |-> <<>>]
    /\ swM = [w \in Workers |-> None]
    /\ obs = [w \in Workers |-> None]
    /\ touched = [w \in Workers |-> 0]
    /\ invok = [file_dirs |-> <<>>]
    /\ fsys = [files |-> [fn \in {} |-> <<>>], dirs |-> {}, seed |-> <<>>,
              free |-> None]
    /\ tst = [pc |-> "idle", file_num |-> 0, dir_in |-> 0, dir_num |-> 0,
              dirs_for_this_level |-> 0, level_dirs |-> <<>>, level |-> 0,
              pathlist |-> <<>>]

\* mk_dir_name(file_num) up to the first loop of the method it selects
mk_dir_name_enter(file_num) ==
    /\ tst.pc \in {"idle", "returned"}
    /\ tst' = IF cfg.hash_to_dir
              THEN [tst EXCEPT !.pc = "hashed_loop", !.file_num = file_num,
                        !.pathlist = <<>>,
                        !.dir_num = ((file_num * some_prime) % cfg.iterations)
                                        \div cfg.files_per_dir]
              ELSE [tst EXCEPT !.pc = "levels_loop", !.file_num = file_num,
                        !.dir_in = file_num \div cfg.files_per_dir,
                        !.level_dirs = <<>>, !.pathlist = <<>>,
                        !.dirs_for_this_level = cfg.dirs_per_dir]
    /\ UNCHANGED <<cfg, wk, pc, netfs, ready, now, worked, swM, obs, touched,
                   invok, fsys>>

\* while dirs_for_this_level <= dir_in: one iteration, or the loop's exit
seq_levels_step ==
    /\ tst.pc = "levels_loop"
    /\ tst' = IF tst.dirs_for_this_level <= tst.dir_in
              THEN IF Len(tst.level_dirs) >= MaxListLen
                   THEN [tst EXCEPT !.pc = "MemoryError"]
                   ELSE [tst EXCEPT
                            !.level_dirs = Append(@, tst.dirs_for_this_level),
                            !.dirs_for_this_level = @ * cfg.dirs_per_dir]
              ELSE [tst EXCEPT !.pc = "digits_loop",
                               !.level = Len(tst.level_dirs) - 1]
    /\ UNCHANGED <<cfg, wk, pc, netfs, ready, now, worked, swM, obs, touched,
                   invok, fsys>>

\* while level > -1: one iteration, or the last append and the return
seq_digits_step ==
    /\ tst.pc = "digits_loop"
    /\ tst' = IF tst.level > -1
              THEN LET dirs_in_level == tst.level_dirs[tst.level + 1]
                       quotient == tst.dir_in \div dirs_in_level
                   IN  [tst EXCEPT
                            !.dir_in = @ - quotient * dirs_in_level,
                            !.pathlist = Append(@, <<"d_", quotient>>),
                            !.level = @ - 1]
              ELSE [tst EXCEPT !.pc = "returned",
                               !.pathlist = Append(@, <<"d_", tst.dir_in>>)]
    /\ UNCHANGED <<cfg, wk, pc, netfs, ready, now, worked, swM, obs, touched,
                   invok, fsys>>

\* while dir_num > 1: one iteration, or the return
hashed_step ==
    /\ tst.pc = "hashed_loop"
    /\ tst' = IF tst.dir_num > 1
              THEN IF Len(tst.pathlist) >= MaxListLen
                   THEN [tst EXCEPT !.pc = "MemoryError"]
                   ELSE [tst EXCEPT
                            !.pathlist =
                                << <<"h_", (tst.dir_num * some_prime)
                                               % cfg.dirs_per_dir>> >> \o @,
                            !.dir_num = @ \div cfg.dirs_per_dir]
              ELSE [tst EXCEPT !.pc = "returned"]
    /\ UNCHANGED <<cfg, wk, pc, netfs, ready, now, worked, swM, obs, touched,
                   invok, fsys>>

NextPlace ==
    \/ \E file_num \in 0..MaxIndex : mk_dir_name_enter(file_num)
    \/ seq_levels_step
    \/ seq_digits_step
    \/ hashed_step

\* the interpreter runs the statements of a started call one after another
SpecPlace == InitPlace /\ [][NextPlace]_vars /\ WF_vars(NextPlace)

\* C28: directory placement never fails and always ends: whatever the file
\* index (>= 0) and whatever the configuration with files_per_dir >= 1,
\* dirs_per_dir >= 1 and iterations >= 1, a started call of mk_dir_name,
\* sequential or hashed, raises nothing and returns its path.
C28_PlacementReturns ==
    /\ [](tst.pc # "MemoryError")
    /\ (tst.pc \in {"levels_loop", "hashed_loop"}) ~> (tst.pc = "returned")

(***************************************************************************)
(* Claims about the data buffer (SpecBuf)                                  *)
(***************************************************************************)

\* Specification SpecBuf: do_workload seeds the generator and builds
\* biggest_buf; a handler then calls prepare_buf for a file number.
MaxBufIndex == 9
MaxXattrCount == 2

BufConfigs ==
    [tid : {"", "00", "01"},
     total_sz_kb : 0..((biggest_buf_size \div BYTES_PER_KB) + 1),
     record_sz_kb : 0..((biggest_buf_size \div BYTES_PER_KB) + 1),
     filesize_distr : {"fixed", "random_exponential"},
     incompressible : BOOLEAN,
     xattr_size : {0, 1, biggest_buf_size, biggest_buf_size + buf_offset_range},
     xattr_count : 0..MaxXattrCount]

InitBuf ==
    /\ cfg \in BufConfigs
    /\ wk = [w \in Workers |-> 0]
    /\ pc = [w \in Workers |-> "idle"]
    /\ netfs = {}
    /\ ready = {}
    /\ now = 0
    /\ worked = [w \in Workers |-> <<>>]
    /\ swM = [w \in Workers |-> None]
    /\ obs = [w \in Workers |-> None]
    /\ touched = [w \in Workers |-> 0]
    /\ fsys = [files |-> [fn \in {} |-> <<>>], dirs |-> {}, seed |-> <<>>,
              free |-> None]
    /\ invok = [biggest_buf |->
                    create_biggest_buf(init_random_seed("create", fsys, now),
                                       cfg.incompressible)]
    /\ tst = [pc |-> "built", filenum |-> 0, exc |-> "none", buf |-> <<>>]

\* self.filenum = filenum; self.prepare_buf()
prepare_buf_call(filenum) ==
    /\ tst.pc \in {"built", "prepared"}
    /\ tst' = IF prepare_buf_asserts(invok.biggest_buf, filenum)
              THEN [tst EXCEPT !.pc = "prepared", !.filenum = filenum,
                        !.buf = prepare_buf_slice(invok.biggest_buf, filenum)]
              ELSE [tst EXCEPT !.pc = "raised", !.filenum = filenum,
                        !.exc = "assertion failed!"]
    /\ UNCHANGED <<cfg, wk, pc, netfs, ready, now, worked, swM, obs, touched,
                   invok, fsys>>

NextBuf == \E filenum \in 0..MaxBufIndex : prepare_buf_call(filenum)
SpecBuf == InitBuf /\ [][NextBuf]_vars

\* C29: the generated buffer is exactly biggest_buf_size + 1024 bytes long
\* (here buf_offset_range bytes stand for the 1024) and ends with a copy of
\* its first 1024 bytes; prepare_buf takes its slice at offset
\* ((int(tid) + 1) * filenum) mod 1024, or filenum mod 1024 when the thread
\* id is not a number; whatever the file number, thread id, file size, record
\* size and extended-attribute size and count, the slice lies within the
\* buffer and the assertion of prepare_buf does not fail.
C29_SliceInBounds ==
    LET b == invok.biggest_buf
        off == IF cfg.tid = "00" THEN tst.filenum % buf_offset_range
               ELSE IF cfg.tid = "01"
                    THEN (2 * tst.filenum) % buf_offset_range
                    ELSE tst.filenum % buf_offset_range
    IN  /\ Len(b) = biggest_buf_size + buf_offset_range
        /\ SubSeq(b, Len(b) - buf_offset_range + 1, Len(b))
               = SubSeq(b, 1, buf_offset_range)
        /\ tst.pc # "built" =>
              /\ tst.exc = "none"
              /\ off + Len(tst.buf) <= Len(b)
              /\ tst.buf = [k \in 1..Len(tst.buf) |-> b[off + k]]

(***************************************************************************)
(* Claims about failed system calls (SpecFull)                             *)
(***************************************************************************)

OpNames == {"create", "stat", "cleanup", "no-such-op"}
InitOp == InitRuns(TreeConfigs, OpNames, 2)
NextOp ==
    \/ \E o \in OpNames : run_test(o)
    \/ do_file_unit
    \/ handler_end
SpecOp == InitOp /\ [][NextOp]_vars

\* C31: when the operation name is none of the known operations, do_workload
\* does no file operation of a workload, records a status other than zero
\* and returns it.
C31_UnknownOperationStatus ==
    \A k \in 1..Len(tst.hist) :
        KeyError(tst.hist[k].op) =>
            /\ tst.hist[k].units = <<>>
            /\ tst.hist[k].after.files = tst.hist[k].before.files
            /\ ~tst.hist[k].raised
            /\ tst.hist[k].status # ok

(***************************************************************************)
(* Claims about the optional modules (SpecMod)                             *)
(***************************************************************************)

\* Specification SpecMod: runs of the operations that use extended
\* attributes, fallocate or fadvise, with each module installed or not
ModOps ==
    {"create", "append", "truncate-overwrite", "setxattr", "getxattr",
     "swift-put", "swift-get", "await-create"}
ModConfigs ==
    [opname : {"cleanup"}, iterations : 1..2,
     files_between_checks : {default_files_between_checks},
     total_sz_kb : {1}, record_sz_kb : {0},
     stonewall : {TRUE}, finish_all_rq : {FALSE}, starting_gate : {FALSE},
     files_per_dir : {2}, dirs_per_dir : {2}, tops : {1},
     hash_to_dir : {FALSE}, dirs_on_demand : {FALSE},
     is_shared_dir : {FALSE},
     tid : {"00"}, incompressible : {FALSE},
     filesize_distr : {"fixed"},
     verify_read : {TRUE},
     record_ctime_size : BOOLEAN, xattr_size : {1}, xattr_count : 1..2,
     xattr_installed : BOOLEAN, fallocate_installed : BOOLEAN,
     fadvise_installed : BOOLEAN]

InitMod ==
    /\ cfg \in ModConfigs
    /\ wk = [w \in Workers |-> reset(cfg)]
    /\ pc = [w \in Workers |-> "idle"]
    /\ netfs = {}
    /\ ready = {}
    /\ now = 0
    /\ worked = [w \in Workers |-> <<>>]
    /\ swM = [w \in Workers |-> None]
    /\ obs = [w \in Workers |-> None]
    /\ touched = [w \in Workers |-> 0]
    /\ invok = reset(cfg) @@ readdir_locals @@
                 [thread_seed |-> <<>>, randstate |-> rand_seed(<<>>),
                  args |-> NoArgs]
    /\ fsys = [files |-> [fn \in {} |-> <<>>], dirs |-> {}, seed |-> <<>>,
               free |-> None, xattrs |-> {}]
    /\ tst = [pc |-> "idle", ops |-> ModOps, max_runs |-> MaxRuns,
              hist |-> <<>>, units |-> <<>>,
              corrupt |-> [idx |-> 0, pos |-> 0, at |-> 0], before |-> fsys]

NextMod ==
    \/ \E o \in ModOps : run_test(o)
    \/ do_file_unit
    \/ handler_end
SpecMod == InitMod /\ [][NextMod]_vars

\* C32: when the selected operation needs an optional module that is not
\* available (getxattr, setxattr, swift-get, await-create without xattr;
\* swift-put without xattr, fallocate or fadvise; create or a write variant
\* with record_ctime_size without xattr), its handler raises a configuration
\* error before it evaluates its stop condition for the first time: filenum
\* stays 0 and no file is created, modified or read.
C32_MissingModuleFailsFast ==
    \A k \in 1..Len(tst.hist) :
        (\/ tst.hist[k].op \in {"getxattr", "setxattr", "swift-get",
                                "await-create"} /\ ~cfg.xattr_installed
         \/ tst.hist[k].op = "swift-put"
               /\ ~(cfg.xattr_installed /\ cfg.fallocate_installed
                      /\ cfg.fadvise_installed)
         \/ tst.hist[k].op \in {"create", "append", "overwrite",
                                "truncate-overwrite"}
               /\ cfg.record_ctime_size /\ ~cfg.xattr_installed) =>
            /\ tst.hist[k].raised
            /\ tst.hist[k].exc = "SMFRunException"
            /\ tst.hist[k].filenum = 0
            /\ tst.hist[k].filenum_final = None
            /\ tst.hist[k].units = <<>>
            /\ tst.hist[k].after.files = tst.hist[k].before.files
            /\ tst.hist[k].after.xattrs = tst.hist[k].before.xattrs

C32_Witness ==
    /\ Len(tst.hist) = 2
    /\ tst.hist[1].op = "create"
    /\ ~tst.hist[1].raised
    /\ tst.hist[1].units # <<>>
    /\ tst.hist[2].op \in {"getxattr", "swift-put"}
    /\ ~cfg.xattr_installed
    /\ tst.hist[2].raised

(***************************************************************************)
(* Specification SpecTouch: the stonewall file cannot always be written    *)
(***************************************************************************)

\* error codes touch(stonewall_path) is made to fail with
TouchErrors == {EEXIST, EINVAL, EACCES, ENOSPC, EIO}

\* tst.err[w]: the error code of w's failed touch; tst.was[w]: w's object
\* when touch was called
InitTouch ==
    /\ cfg \in {c \in Configs : c.opname = "create" /\ ~c.starting_gate}
    /\ wk = [w \in Workers |-> reset(cfg)]
    /\ pc = [w \in Workers |-> "idle"]
    /\ netfs = {}
    /\ ready = {}
    /\ now = 0
    /\ worked = [w \in Workers |-> <<>>]
    /\ swM = [w \in Workers |-> None]
    /\ obs = [w \in Workers |-> None]
    /\ touched = [w \in Workers |-> 0]
    /\ invok = reset(cfg)
    /\ fsys = [files |-> [fn \in {} |-> <<>>], dirs |-> {}, seed |-> <<>>,
              free |-> None]
    /\ tst = [pc |-> "touch",
              err |-> [w \in Workers |-> None],
              was |-> [w \in Workers |-> None]]

touch_stonewall_error(w) ==
    /\ \E err \in TouchErrors :
         /\ touch_raises(w, err)
         /\ tst' = [tst EXCEPT !.err[w] = err, !.was[w] = wk[w]]
    /\ UNCHANGED <<invok, fsys>>

NextTouch ==
    \/ \E w \in Workers : do_workload_begin(w)
    \/ \E w \in Workers : wait_for_gate_enter(w)
    \/ \E w \in Workers : start_test(w)
    \/ \E w \in Workers : another_file(w)
    \/ \E w \in Workers : touch_stonewall(w)
    \/ \E w \in Workers : touch_stonewall_error(w)
    \/ \E w \in Workers : do_file(w)
    \/ \E w \in Workers : do_file_fails(w)
    \/ \E w \in Workers : do_workload_return(w)

SpecTouch == InitTouch /\ [][NextTouch]_vars

\* C33: when touch(stonewall_path) has failed in end_test, the status is the
\* one the worker had if the error code is EEXIST or EINVAL and the error
\* code otherwise; end_test has returned (the worker is back in its handler
\* or has returned from do_workload, nothing was raised) and the final
\* counters and the end time are the ones end_test recorded
C33_StonewallTouchErrors ==
    \A w \in Workers :
        tst.err[w] # None =>
            /\ wk[w].status = IF tst.err[w] \in {EEXIST, EINVAL}
                              THEN tst.was[w].status ELSE tst.err[w]
            /\ pc[w] \in {"ret", "done"}
            /\ wk[w].exc = "none"
            /\ wk[w].filenum_final = tst.was[w].filenum_final
            /\ wk[w].filenum_final # None
            /\ wk[w].rq_final = tst.was[w].rq_final
            /\ wk[w].rq_final # None
            /\ wk[w].end_time = tst.was[w].end_time
            /\ wk[w].end_time # None
            /\ wk[w].elapsed_time = tst.was[w].elapsed_time

\* two workers' touch has failed, one with a benign code, one with another
C33_Witness ==
    \E v, w \in Workers :
        /\ tst.err[v] \in {EEXIST, EINVAL}
        /\ tst.err[w] \in {EACCES, ENOSPC, EIO}
        /\ pc[v] = "done"
        /\ pc[w] = "done"
        /\ wk[w].status = tst.err[w]
        /\ wk[v].status = ok

(***************************************************************************)
(* Specification SpecPut: do_swift_put system call by system call, each of *)
(* which may raise                                                         *)
(***************************************************************************)
PutConfigs ==
    [opname : {"cleanup"}, iterations : 1..2,
     files_between_checks : {default_files_between_checks},
     total_sz_kb : 1..MaxSzKb, record_sz_kb : {1},
     stonewall : {TRUE}, finish_all_rq : {FALSE}, starting_gate : {FALSE},
     files_per_dir : {2}, dirs_per_dir : {2}, tops : {1},
     hash_to_dir : {FALSE}, dirs_on_demand : {FALSE},
     is_shared_dir : {FALSE},
     tid : {"00"}, incompressible : {FALSE},
     filesize_distr : {"fixed"},
     verify_read : {TRUE},
     record_ctime_size : {FALSE}, xattr_size : {1}, xattr_count : 1..2,
     xattr_installed : {TRUE}, fallocate_installed : {TRUE},
     fadvise_installed : {TRUE}]

\* the local variables of do_swift_put between two passes of its loop
\* (had, old, old_attrs: what had the name fn2 when the pass began)
put_locals ==
    [pc |-> "none", fn |-> None, fn2 |-> None, next_fsz |-> 0, buf |-> <<>>,
     remaining_kb |-> 0, pos |-> 0, j |-> 0,
     had |-> FALSE, old |-> None, old_attrs |-> {}]

\* the attributes of the file fn: name and value
attrs_of(f, fn) ==
    {[nm |-> x.nm, v |-> x.v] : x \in {y \in xattrs_of(f) : y.fn = fn}}

\* tst.put: put_locals; tst.full[fn2]: the content and the attributes the
\* pass that renamed a file to fn2 was to give it
InitPut ==
    /\ cfg \in PutConfigs
    /\ wk = [w \in Workers |-> reset(cfg)]
    /\ pc = [w \in Workers |-> "idle"]
    /\ netfs = {}
    /\ ready = {}
    /\ now = 0
    /\ worked = [w \in Workers |-> <<>>]
    /\ swM = [w \in Workers |-> None]
    /\ obs = [w \in Workers |-> None]
    /\ touched = [w \in Workers |-> 0]
    /\ invok = reset(cfg) @@ readdir_locals @@
                 [thread_seed |-> <<>>, randstate |-> rand_seed(<<>>),
                  args |-> NoArgs]
    /\ \E free \in {None, 2 * MaxSzKb * BYTES_PER_KB} :
         fsys = [files |-> [fn \in {} |-> <<>>], dirs |-> {}, seed |-> <<>>,
                 free |-> free, xattrs |-> {}]
    /\ tst = [pc |-> "idle", ops |-> {"swift-put"}, max_runs |-> 2,
              hist |-> <<>>, units |-> <<>>,
              corrupt |-> [idx |-> 0, pos |-> 0, at |-> 0], before |-> fsys,
              put |-> put_locals, full |-> [fn \in {} |-> None]]

\* do_swift_put: do_another_file returns True; the names, the size and the
\* buffer of the pass
put_begin ==
    /\ tst.pc = "running"
    /\ LET r == do_another_file(invok, now, "stonewall" \in netfs)
           fn2 == mk_file_nm(r.s, src_dirs, r.s.filenum)
       IN  /\ r.ret = "true"
           /\ invok' = [r.s EXCEPT !.randstate = after_file_size(@)]
           /\ tst' = [tst EXCEPT
                        !.pc = "putting",
                        !.put = [pc |-> "open", fn |-> with_ext(fn2, ".tmp"),
                                 fn2 |-> fn2,
                                 next_fsz |-> get_next_file_size(r.s.randstate),
                                 buf |-> prepare_buf(r.s.thread_seed,
                                                     r.s.filenum),
                                 remaining_kb |->
                                     get_next_file_size(r.s.randstate),
                                 pos |-> 0, j |-> 0,
                                 had |-> file_exists(fsys, fn2),
                                 old |-> IF file_exists(fsys, fn2)
                                         THEN fsys.files[fn2] ELSE None,
                                 old_attrs |-> attrs_of(fsys, fn2)]]
    /\ UNCHANGED <<cfg, fsys, netfs, now, wk, pc, ready, worked, swM, obs,
                   touched>>

\* the except clause of do_swift_put: ensure_deleted(fn), then raise
\* (a variant that leaves the file where it is)
put_except_kept(f, fn) == f
put_except(f, fn) == ensure_deleted(f, fn)

\* a step of the pass raises what u stands for: the except clause runs and
\* do_workload ends the run
put_raises(u) ==
    /\ file_unit_done(invok.filenum, u)
    /\ UNCHANGED <<netfs, now, wk, pc, ready, worked, swM, obs, touched>>

\* the pass goes on with the files f and the locals p
put_goes_on(f, p) ==
    /\ fsys' = f
    /\ tst' = [tst EXCEPT !.put = p]
    /\ UNCHANGED <<cfg, invok, netfs, now, wk, pc, ready, worked, swM, obs,
                   touched>>

\* os.open(fn, O_WRONLY | O_CREAT) and os.fchmod
put_open ==
    /\ tst.pc = "putting"
    /\ tst.put.pc = "open"
    /\ IF ~dir_exists(fsys, dirname(tst.put.fn))
       THEN put_raises(OSError(invok, put_except(fsys, tst.put.fn), ENOENT))
       ELSE put_goes_on(open_creat(fsys, tst.put.fn),
                        [tst.put EXCEPT !.pc = "fallocate"])

\* fallocate.fallocate(fd, 0, 0, fszbytes) has returned a
put_allocated(a) ==
    IF a.ret # ok
    THEN put_raises(SMFRunException(invok, put_except(a.f, tst.put.fn)))
    ELSE put_goes_on(a.f, [tst.put EXCEPT !.pc = "write"])

put_fallocate ==
    /\ tst.pc = "putting"
    /\ tst.put.pc = "fallocate"
    /\ put_allocated(fallocate(fsys, tst.put.fn,
                               tst.put.next_fsz * BYTES_PER_KB))

\* os.write of one record has returned w
put_record_written(p, rszbytes, next_kb, w) ==
    LET f1 == [put(fsys, p.fn, "file", w.data) EXCEPT !.free = w.free]
    IN  IF w.written = None
        THEN put_raises(OSError(invok, put_except(fsys, p.fn), ENOSPC))
        ELSE IF w.written # rszbytes
        THEN put_raises(MFRdWrExc(invok, put_except(f1, p.fn),
                                  [matched |-> None,
                                   filenum |-> invok.filenum,
                                   rq |-> invok.rq, bytes |-> w.written]))
        ELSE put_goes_on(f1, [p EXCEPT !.remaining_kb = @ - next_kb,
                                       !.pos = @ + rszbytes])

\* one evaluation of the write loop
put_write ==
    /\ tst.pc = "putting"
    /\ tst.put.pc = "write"
    /\ LET p == tst.put
           next_kb == Min(get_record_size_to_use, p.remaining_kb)
           rszbytes == next_kb * BYTES_PER_KB
       IN  IF p.remaining_kb > 0
           THEN put_record_written(p, rszbytes, next_kb,
                    os_write(fsys.files[p.fn].data, p.pos,
                             SubSeq(p.buf, 1, Min(rszbytes, Len(p.buf))),
                             fsys.free))
           ELSE put_goes_on(fsys, [p EXCEPT !.pc = "getxattr"])

\* the loop that reads the attributes: ENODATA is logged
put_getxattr ==
    /\ tst.pc = "putting"
    /\ tst.put.pc = "getxattr"
    /\ put_goes_on(fsys, [tst.put EXCEPT !.pc = "setxattr", !.j = 0])

\* one evaluation of the loop that sets the attributes
put_setxattr ==
    /\ tst.pc = "putting"
    /\ tst.put.pc = "setxattr"
    /\ LET p == tst.put IN
       IF p.j < xattr_count
       THEN put_goes_on(setxattr(fsys, p.fn, <<"user.smallfile-all-", p.j>>,
                                 binary_buf_str(xattr_value(p.buf, p.j))),
                        [p EXCEPT !.j = @ + 1])
       ELSE put_goes_on(fsys, [p EXCEPT !.pc = "sync"])

\* os.fsync and drop_buffer_cache
put_sync ==
    /\ tst.pc = "putting"
    /\ tst.put.pc = "sync"
    /\ put_goes_on(fsys, [tst.put EXCEPT !.pc = "rename"])

\* the content and the attributes the pass is to give the object
put_full(p) ==
    [data |-> write_records(p.next_fsz, get_record_size_to_use, p.buf),
     attrs |-> {[nm |-> <<"user.smallfile-all-", j>>,
                 v |-> binary_buf_str(xattr_value(p.buf, j))] :
                    j \in 0..(xattr_count - 1)}]

\* os.rename(fn, fn2), self.rq += 1, and the finally clause closes the file
put_rename ==
    /\ tst.pc = "putting"
    /\ tst.put.pc = "rename"
    /\ fsys' = rename_file(fsys, tst.put.fn, tst.put.fn2)
    /\ invok' = [invok EXCEPT !.rq = @ + 1]
    /\ tst' = [tst EXCEPT
                 !.pc = "running",
                 !.units = Append(@, invok.filenum),
                 !.put = [@ EXCEPT !.pc = "none"],
                 !.full = [x \in DOMAIN @ \cup {tst.put.fn2} |->
                             IF x = tst.put.fn2 THEN put_full(tst.put)
                             ELSE @[x]]]
    /\ UNCHANGED <<cfg, netfs, now, wk, pc, ready, worked, swM, obs, touched>>

\* a system call of the pass, the rename included, raises OSError
put_syscall_fails ==
    /\ tst.pc = "putting"
    /\ put_raises(OSError(invok, put_except(fsys, tst.put.fn), EIO))

NextPut ==
    \/ run_test("swift-put")
    \/ put_begin
    \/ put_open
    \/ put_fallocate
    \/ put_write
    \/ put_getxattr
    \/ put_setxattr
    \/ put_sync
    \/ put_rename
    \/ put_syscall_fails
    \/ handler_end

SpecPut == InitPut /\ [][NextPut]_vars

\* the objects: the files of the source tree under their final names
objects(f) == {fn \in DOMAIN f.files : fn.tree = src_dirs /\ fn.ext = ""}

\* every object has the whole content and all the attributes of the pass
\* that gave it its name
objects_complete ==
    \A fn \in objects(fsys) :
        /\ fn \in DOMAIN tst.full
        /\ fsys.files[fn].data = tst.full[fn].data
        /\ Len(fsys.files[fn].data) = cfg.total_sz_kb * BYTES_PER_KB
        /\ attrs_of(fsys, fn) = tst.full[fn].attrs
        /\ Cardinality(attrs_of(fsys, fn)) = xattr_count

\* a pass has raised: its ".tmp" file is gone, what has the final name is
\* what had it when the pass began, and the exception has left do_swift_put
\* and ended the run
put_raised_clean ==
    (tst.pc = "idle" /\ tst.put.pc # "none") =>
        LET p == tst.put
            last == tst.hist[Len(tst.hist)]
        IN  /\ ~file_exists(fsys, p.fn)
            /\ attrs_of(fsys, p.fn) = {}
            /\ file_exists(fsys, p.fn2) = p.had
            /\ p.had => fsys.files[p.fn2] = p.old
            /\ attrs_of(fsys, p.fn2) = p.old_attrs
            /\ last.exc \in {"OSError", "MFRdWrExc", "SMFRunException"}
            /\ last.exc = "SMFRunException" <=> last.raised
            /\ last.exc # "SMFRunException" => last.status # ok
            /\ last.filenum \notin {last.units[k] : k \in 1..Len(last.units)}

\* a file gets a final name only by the rename of the pass for that name
named_by_rename ==
    \A fn \in objects(fsys') \ objects(fsys) :
        /\ tst.pc = "putting"
        /\ tst.put.pc = "rename"
        /\ fn = tst.put.fn2
        /\ tst'.put.pc = "none"

\* C34: in swift-put an object never exists under its final name with less
\* than its whole content and attributes, the final name appears only by
\* the rename, and when a step of a pass up to and including the rename
\* raises, the ".tmp" file is deleted, the final name is as it was before the
\* pass, and the exception leaves the handler
C34_SwiftPutAtomic ==
    /\ [](objects_complete /\ put_raised_clean)
    /\ [][named_by_rename]_vars

\* the second run over existing objects has raised after the data and the
\* attributes were written to the ".tmp" file
C34_Witness ==
    /\ tst.pc = "idle"
    /\ Len(tst.hist) = 2
    /\ tst.put.pc = "rename"
    /\ tst.put.had
    /\ tst.put.next_fsz > 1
    /\ tst.hist[2].units # <<>>
    /\ Cardinality(objects(fsys)) = 2

\* C35: a create run leaves its fresh seed text in the seed file and is
\* seeded with it, and a later run of another operation, with no create run
\* in between, is seeded with exactly the text that create run persisted
C35_SeedReplayed ==
    \A i \in 1..Len(tst.hist) :
        tst.hist[i].op \in {"create", "swift-put"} =>
            /\ tst.hist[i].after.seed = tst.hist[i].thread_seed
            /\ \A j \in (i + 1)..Len(tst.hist) :
                   (\A k \in (i + 1)..j :
                        tst.hist[k].op \notin {"create", "swift-put"})
                       => tst.hist[j].thread_seed = tst.hist[i].after.seed

(***************************************************************************)
(* Specification SpecRen: create, rename and delete-renamed runs, with the *)
(* two trees apart or the same (Test.test_e_Rename, test_f_DeleteRenamed)  *)
(***************************************************************************)
RenOps == {"create", "rename", "delete-renamed"}
RenConfigs ==
    {c \in [opname : {"cleanup"}, iterations : 1..MaxIter,
            files_between_checks : {default_files_between_checks},
            total_sz_kb : {1}, record_sz_kb : {0},
            stonewall : {TRUE}, finish_all_rq : {FALSE},
            starting_gate : {FALSE},
            files_per_dir : 1..2, dirs_per_dir : {2}, tops : 1..2,
            hash_to_dir : BOOLEAN, dirs_on_demand : BOOLEAN,
            is_shared_dir : {FALSE},
            tid : {"00"}, incompressible : {FALSE},
            filesize_distr : {"fixed"},
            verify_read : {TRUE}, same_dirs : BOOLEAN] :
        c.tops = 2 => c.dirs_on_demand}

InitRen == InitRuns(RenConfigs, RenOps, MaxRuns + 1)

NextRen ==
    \/ \E o \in RenOps : run_test(o)
    \/ do_file_unit
    \/ handler_end

SpecRen == InitRen /\ [][NextRen]_vars

\* the run h has done the file numbers 1 .. iterations and returned status ok
run_complete(h) ==
    /\ ~h.raised
    /\ h.status = ok
    /\ h.units = [k \in 1..cfg.iterations |-> k]

\* the names the rename run h took the files from and gave them
rename_sources(h) ==
    {mk_file_nm(h, src_dirs, h.units[k]) : k \in 1..Len(h.units)}
rename_targets(h) ==
    {IF dest_dirs = src_dirs
     THEN with_ext(mk_file_nm(h, dest_dirs, h.units[k]), ".rnm")
     ELSE mk_file_nm(h, dest_dirs, h.units[k]) : k \in 1..Len(h.units)}

\* C36: after a complete create run and a rename run that returned status
\* ok, no file the rename run worked on has its source name and every one has
\* its destination name (with ".rnm" when the two trees are the same); a
\* delete-renamed run that follows removes exactly the files of those names
C36_RenameThenDeleteRenamed ==
    \A i \in 1..(Len(tst.hist) - 1) :
        LET c == tst.hist[i]
            r == tst.hist[i + 1]
        IN  (c.op = "create" /\ run_complete(c)
             /\ r.op = "rename" /\ ~r.raised /\ r.status = ok) =>
                /\ r.units = c.units
                /\ \A fn \in rename_sources(r) : ~file_exists(r.after, fn)
                /\ \A fn \in rename_targets(r) : file_exists(r.after, fn)
                /\ (i + 2 <= Len(tst.hist)
                    /\ tst.hist[i + 2].op = "delete-renamed") =>
                       LET x == tst.hist[i + 2] IN
                       /\ run_complete(x)
                       /\ DOMAIN x.after.files =
                              DOMAIN x.before.files \ rename_targets(r)
                       /\ \A fn \in rename_targets(r) :
                              ~file_exists(x.after, fn)

\* create, rename and delete-renamed of three files in one tree, which is
\* empty afterwards
C36_Witness ==
    /\ Len(tst.hist) = 3
    /\ dest_dirs = src_dirs
    /\ cfg.iterations = 3
    /\ tst.hist[1].op = "create" /\ run_complete(tst.hist[1])
    /\ tst.hist[2].op = "rename" /\ run_complete(tst.hist[2])
    /\ tst.hist[3].op = "delete-renamed" /\ run_complete(tst.hist[3])
    /\ Cardinality(rename_targets(tst.hist[2])) = 3
    /\ DOMAIN tst.hist[2].after.files = rename_targets(tst.hist[2])
    /\ DOMAIN tst.hist[3].after.files = {}

(***************************************************************************)
(* Specification SpecFin: a create run with directories made on demand,    *)
(* during which another thread may write the stonewall file                *)
(***************************************************************************)

\* files of a run with files of 1 KB: the stonewall file is looked for
\* before file number 99
LongRun == 100

FinConfigs ==
    {c \in [opname : {"cleanup"}, iterations : (1..MaxIter) \cup {LongRun},
            files_between_checks :
                (1..MaxFbc) \cup {default_files_between_checks},
            total_sz_kb : 0..1, record_sz_kb : {0},
            stonewall : {TRUE}, finish_all_rq : BOOLEAN,
            starting_gate : {FALSE},
            files_per_dir : {2}, dirs_per_dir : {2}, tops : {1},
            hash_to_dir : {FALSE}, dirs_on_demand : {TRUE},
            is_shared_dir : BOOLEAN,
            tid : {"00", "01"}, incompressible : {FALSE},
            filesize_distr : {"fixed"},
            verify_read : {TRUE}] :
        /\ (c.total_sz_kb > 0) <=>
              (c.files_between_checks = default_files_between_checks)
        /\ (c.total_sz_kb > 0) <=> (c.iterations = LongRun)
        /\ c.iterations = LongRun => (c.is_shared_dir /\ c.tid = "01")}

InitFin == InitRuns(FinConfigs, {"create"}, 1)

\* another thread's end_test writes the stonewall file
stonewall_appears ==
    /\ tst.pc = "running"
    /\ "stonewall" \notin netfs
    /\ netfs' = netfs \cup {"stonewall"}
    /\ UNCHANGED <<cfg, wk, pc, ready, now, worked, swM, obs, touched,
                   fsvars>>

\* time passes during the run: the next reading of the clock is later
clock_advances ==
    /\ tst.pc = "running"
    /\ now = invok.start_time
    /\ now' = now + 1
    /\ UNCHANGED <<cfg, wk, pc, netfs, ready, worked, swM, obs, touched,
                   fsvars>>

NextFin ==
    \/ run_test("create")
    \/ do_file_unit
    \/ handler_end
    \/ stonewall_appears
    \/ clock_advances

SpecFin == InitFin /\ [][NextFin]_vars

\* C37: in every state of a run 0 <= filenum <= iterations, and once
\* end_test has recorded the end of the run, filenum_final <= filenum and
\* rq_final <= rq
C37_CountersInRange ==
    /\ 0 <= invok.filenum
    /\ invok.filenum <= cfg.iterations
    /\ invok.filenum_final # None =>
          /\ invok.filenum_final <= invok.filenum
          /\ invok.rq_final <= invok.rq

\* the end of the run was recorded at the stonewall file before file number
\* 99; the run goes on (finish_all_rq), has written file 99 and has just made
\* the directory of file 100, which it will now try again
C37_Witness ==
    /\ tst.pc = "running"
    /\ cfg.iterations = LongRun
    /\ invok.filenum_final = 98
    /\ invok.rq_final = 98
    /\ invok.filenum = 99
    /\ invok.rq = 99
    /\ dir_exists(fsys, dirname(mk_file_nm(invok, src_dirs, 100)))
    /\ ~file_exists(fsys, mk_file_nm(invok, src_dirs, 100))

\* C38: when do_workload has returned a status, zero or not, the end of the
\* run has been recorded: end_time, elapsed_time, filenum_final and rq_final
\* are set
C38_EndRecordedOnReturn ==
    (tst.pc = "idle" /\ tst.hist # <<>>
        /\ ~tst.hist[Len(tst.hist)].raised) =>
            /\ invok.end_time # None
            /\ invok.elapsed_time # None
            /\ invok.filenum_final # None
            /\ invok.rq_final # None

\* C39: every index do_workload passes to mk_file_nm, in the handlers, in
\* make_all_subdirs and in clean_all_subdirs, is an index of file_dirs,
\* which has iterations + files_per_dir entries: no run raises IndexError
C39_IndexWithinCache ==
    /\ \A i \in 1..Len(tst.hist) : tst.hist[i].exc # "IndexError"
    /\ tst.pc = "running" =>
          /\ Len(invok.file_dirs) = cfg.iterations + cfg.files_per_dir
          /\ ~IndexError(invok, invok.filenum)
          /\ (cfg.opname \in {"create", "mkdir", "swift-put", "cleanup"}
                 /\ ~not_my_subdirs) =>
                 \A k \in tree_range : \A j \in dir_range :
                     ~IndexError(invok, j + k)

(***************************************************************************)
(* Specification SpecDirs: one create or mkdir run on an empty tree, for   *)
(* one to three top-level directories; the test may be aborted             *)
(***************************************************************************)
DirsOps == {"create", "mkdir"}
DirsConfigs ==
    [opname : {"cleanup"}, iterations : 1..(2 * MaxIter),
     files_between_checks : {default_files_between_checks},
     total_sz_kb : {1}, record_sz_kb : {0},
     stonewall : {TRUE}, finish_all_rq : {FALSE}, starting_gate : {FALSE},
     files_per_dir : 1..MaxFpd, dirs_per_dir : {2}, tops : 1..(MaxTops + 1),
     hash_to_dir : BOOLEAN, dirs_on_demand : {FALSE},
     is_shared_dir : BOOLEAN,
     tid : {"00", "01"}, incompressible : {FALSE},
     filesize_distr : {"fixed"},
     verify_read : {TRUE}]

InitDirs == InitRuns(DirsConfigs, DirsOps, 1)

NextDirs ==
    \/ \E o \in DirsOps : run_test(o)
    \/ do_file_unit
    \/ handler_end
    \/ abort_test

SpecDirs == InitDirs /\ [][NextDirs]_vars

\* C40: when make_all_subdirs has completed without abort, for a worker
\* that makes its own directories, the directory of mk_file_nm(tree, i)
\* exists in the source and in the destination tree for every file number
\* i in 1..iterations, and the create run does all its files without
\* meeting a missing directory
C40_ParentsExist ==
    (~not_my_subdirs /\ "abort" \notin netfs) =>
        /\ tst.pc = "running" =>
              \A i \in 1..cfg.iterations : \A tree \in {src_dirs, dest_dirs} :
                  dir_exists(fsys, dirname(mk_file_nm(invok, tree, i)))
        /\ \A n \in 1..Len(tst.hist) :
              ~tst.hist[n].raised =>
                  /\ tst.hist[n].status = ok
                  /\ tst.hist[n].units = [k \in 1..cfg.iterations |-> k]

\* a create run of six files in three top-level directories, hashed into
\* directories, has made all of them
C40_Witness ==
    /\ tst.pc = "idle"
    /\ Len(tst.hist) = 1
    /\ cfg.tops = 3
    /\ cfg.iterations = 6
    /\ cfg.hash_to_dir
    /\ "abort" \notin netfs
    /\ ~not_my_subdirs
    /\ tst.hist[1].op = "create"
    /\ run_complete(tst.hist[1])
    /\ Cardinality({fn.top : fn \in DOMAIN fsys.files}) = 3

====
